---- MODULE Spec2Model ----
(***************************************************************************)
(* A model of the Logos ontology core (src/core): the Ontology registry    *)
(* with relation de-duplication and hierarchy propagation, the ancestor    *)
(* walk of Entity, the interval map of TemporalRelation and the            *)
(* multi-valued evaluation of RelationContext, and the truth maintenance   *)
(* of Relation (evaluate_truth, set_truth_value, update_from_context).     *)
(*                                                                         *)
(* Objects are named by small integers: an entity is the number it got     *)
(* when it was created, a relation is its position in Ontology.relations   *)
(* (the list is append-only), a TimeInterval is the number it got when it  *)
(* was constructed.  Python's object identity is equality of these numbers.*)
(***************************************************************************)
EXTENDS Integers, Sequences, FiniteSets, TLC

\* Bounds of the model.
NumEnt == 3        \* entities that can be created
MaxRels == 2       \* relations that can be registered
NumNodes == 4      \* entities of the parents graph walked by get_all_ancestors
MaxEdges == 4      \* parent edges of that graph
MaxTime == 1       \* datetime.max, with datetime.min = 0: the moments are 0..MaxTime
MaxIntervals == 2  \* TimeInterval objects alive at a time
MaxOperands == 3   \* operands of a RelationContext condition
MaxTruthRels == 3  \* relations registered for the truth-maintenance operations
NumThreads == 2    \* threads that call the Ontology concurrently
MaxTruthValues == 2 \* TruthValue objects observed together
MaxQuantified == 2 \* quantified relations that can be registered

Threads == 1..NumThreads

EntityIds == 1..NumEnt

\* Input sets of the Ontology operations.
TruthStates == {"TRUE", "FALSE", "UNKNOWN", "SUPERPOSITION"}

VARIABLES
    entities,       \* Ontology.entities: the registered entities
    parents,        \* Entity.parents of every entity
    entRelations,   \* Entity.relations of every entity (a list)
    relations,      \* Ontology.relations (a list of relation objects)
    lastOp,         \* the most recent of add_relation / add_temporal_relation that was called
    ret,            \* the relation that call returned
    firstRet,       \* history: the key of every add_relation call made so far, with what the first such call returned
    walkPhase,      \* get_all_ancestors: "idle", "running" or "done"
    walkStart,      \* the entity get_all_ancestors was called on
    walkStack,      \* the frames of the recursion: the entity and what its for loop has still to iterate
    walkSeen,       \* the set `seen` shared by all frames
    walkCalls,      \* how many times get_all_ancestors was entered for each entity by the recursion
    timeIntervals,  \* the TimeInterval objects: start_time and end_time of each
    interval_truths,\* TemporalRelation.interval_truths: a dict, in insertion order, from TimeInterval object to TruthValue
    default_truth,  \* TemporalRelation.default_truth
    tmpCall,        \* the most recent call on the TemporalRelation or a TimeInterval, with its outcome
    ctxRels,        \* the Relations (without context) used as operands: the truth_value of each
    ctxCond,        \* RelationContext.condition of the context under observation
    ctxCall,        \* the most recent call on the context or its operands, with its outcome
    predicates,     \* Ontology.predicates: for every registered predicate name, the names in its inverses list
    truthCall,      \* the most recent truth operation (evaluate_truth, set_truth_value, ...) or failed Ontology call, with its outcome
    entNames,       \* Entity.name of every entity
    entAliases,     \* Entity.aliases of every entity (a list)
    alias_map,      \* Ontology.alias_map: a dict, in insertion order, from alias to the list of its entities
    entCall,        \* the most recent add_entity / add_alias / resolve_entity / all_relations call, with its outcome
    lock,           \* the caller's lock on the Ontology: the thread that holds it, 0 if free
    pc,             \* where each thread is in its call
    thrCall,        \* the call each thread makes, with its arguments
    thrLocal,       \* the local variables of each thread's call (r, loop position) and what it returned
    tvObjs,         \* the TruthValue objects under observation: value and probability of each
    tvCall,         \* the most recent evaluate / collapse_probability call, with its outcome
    ioCall,         \* the most recent save, load, to_dict or from_dict call, with its outcome
    quantified_relations, \* Ontology.quantified_relations (a list)
    savedFile,      \* the JSON file save_ontology writes and load_ontology reads
    qryCall         \* the most recent query_relations, instantiate or comparison call, with its outcome

ontVars == <<entities, parents, entRelations, relations, lastOp, ret, firstRet>>
walkVars == <<walkPhase, walkStart, walkStack, walkSeen, walkCalls>>
tmpVars == <<timeIntervals, interval_truths, default_truth, tmpCall>>
ctxVars == <<ctxRels, ctxCond, ctxCall>>
engVars == <<predicates, truthCall>>
regVars == <<entNames, entAliases, alias_map, entCall>>
thrVars == <<lock, pc, thrCall, thrLocal>>
tvVars == <<tvObjs, tvCall>>
serVars == <<ioCall, quantified_relations, savedFile>>
qryVars == <<qryCall>>
extVars == <<regVars, thrVars, tvVars, serVars, qryVars>>

vars == <<ontVars, walkVars, tmpVars, ctxVars, engVars, extVars>>

----------------------------------------------------------------------------
\* Helpers

\* str.upper() on the relation-type arguments used here.
Upper(s) ==
    CASE s = "general" -> "GENERAL"
      [] s = "contextual" -> "CONTEXTUAL"
      [] s = "permanent" -> "PERMANENT"
      [] s = "owned_by" -> "OWNED_BY"
      [] s = "is" -> "IS"
      [] s = "has" -> "HAS"
      [] s = "dog" -> "DOG"
      [] s = "pet" -> "PET"
      [] s = "Pet" -> "PET"
      [] s = "d" -> "D"
      [] s = "x" -> "X"
      [] OTHER -> s

\* A roles dict is a sequence of <<role name, entity>> pairs in insertion
\* order, with no role name twice.
DictItems(d) == {d[i] : i \in 1..Len(d)}

\* A comparison of roles dicts that also compares the insertion order.
DictEqOrdered(a, b) == a = b

\* dict.__eq__: the same keys with equal values, whatever the insertion order.
DictEq(a, b) == DictItems(a) = DictItems(b)

\* roles.values(), in insertion order.
DictValues(d) == [i \in 1..Len(d) |-> d[i][2]]

NoContext == [kind |-> "none"]
RelContext(i) == [kind |-> "relation", id |-> i]

\* isinstance(context, Relation)
IsRelation(ctx) == ctx.kind = "relation"

----------------------------------------------------------------------------
\* Entity.get_all_ancestors

\* The depth-first walk over parents with the visited set `seen` threaded
\* through the recursion; `todo` is what the for loop of the frame of an
\* entity has still to iterate (the order of the list is immaterial: an
\* entity already in seen is skipped).
RECURSIVE Walk(_, _, _)
Walk(par, todo, seen) ==
    IF todo = {} THEN seen
    ELSE LET p == CHOOSE x \in todo : TRUE
         IN IF p \in seen
            THEN Walk(par, todo \ {p}, seen)
            ELSE Walk(par, todo \ {p}, Walk(par, par[p], seen \cup {p}))

\* A walk that stops at the direct parents.
GetAllAncestorsParentsOnly(par, e) == par[e]

GetAllAncestors(par, e) == Walk(par, par[e], {})

----------------------------------------------------------------------------
\* Ontology

\* The loop of add_relation over self.relations: the first existing relation
\* with the same predicate, roles and context; 0 when there is none.
FindExistingNever(pred, roles, ctx) == 0

FindExisting(pred, roles, ctx) ==
    LET hits == {i \in 1..Len(relations) :
                    /\ relations[i].predicate = pred
                    /\ DictEq(relations[i].roles, roles)
                    /\ relations[i].context = ctx}
    IN IF hits = {} THEN 0 ELSE CHOOSE i \in hits : \A j \in hits : i <= j

\* The loop of add_temporal_relation over self.relations.
FindExistingTemporal(pred, roles, rtype, ctx) ==
    LET hits == {i \in 1..Len(relations) :
                    /\ relations[i].temporal
                    /\ relations[i].predicate = pred
                    /\ DictEq(relations[i].roles, roles)
                    /\ relations[i].context = ctx
                    /\ relations[i].relation_type = Upper(rtype)}
    IN IF hits = {} THEN 0 ELSE CHOOSE i \in hits : \A j \in hits : i <= j

\* Relation.__init__ and TemporalRelation.__init__
NewRelation(pred, roles, rtype, ctx, tv) ==
    [predicate |-> pred, roles |-> roles, relation_type |-> Upper(rtype),
     context |-> ctx,
     truth_value |-> IF tv = "None" THEN "UNKNOWN" ELSE tv,
     dependents |-> {}, temporal |-> FALSE, default_truth |-> "None"]

NewTemporalRelation(pred, roles, rtype, ctx, dt) ==
    [predicate |-> pred, roles |-> roles, relation_type |-> Upper(rtype),
     context |-> ctx,
     truth_value |-> "UNKNOWN",
     dependents |-> {}, temporal |-> TRUE,
     default_truth |-> IF dt = "None" THEN "UNKNOWN" ELSE dt]

\* for e in roles.values(): e.relations.append(r)
RECURSIVE AttachToRoles(_, _, _)
AttachToRoles(er, vals, r) ==
    IF vals = <<>> THEN er
    ELSE AttachToRoles([er EXCEPT ![Head(vals)] = Append(@, r)], Tail(vals), r)

InList(x, list) == \E i \in 1..Len(list) : list[i] = x

\* A propagation that appends without looking at the list.
PropagateAlways(er, ents, par, roles, r) ==
    LET involved == {roles[i][2] : i \in 1..Len(roles)}
    IN [e \in EntityIds |->
          IF /\ e \in ents
             /\ \E a \in involved : a \in GetAllAncestors(par, e)
          THEN Append(er[e], r)
          ELSE er[e]]

\* Ontology.propagate_relation_to_descendants, on the lists `er`
PropagateToDescendants(er, ents, par, roles, r) ==
    LET involved == {roles[i][2] : i \in 1..Len(roles)}
    IN [e \in EntityIds |->
          IF /\ e \in ents
             /\ \E a \in involved : a \in GetAllAncestors(par, e)
             /\ ~InList(r, er[e])
          THEN Append(er[e], r)
          ELSE er[e]]

\* A registration that is left out.
RegisterNowhere(rels, ctx, r) == rels

\* context.dependents.add(r)
RegisterDependent(rels, ctx, r) ==
    IF IsRelation(ctx)
    THEN [rels EXCEPT ![ctx.id].dependents = @ \cup {r}]
    ELSE rels

CallKey(pred, roles, ctx) ==
    [predicate |-> pred, roles |-> DictItems(roles), context |-> ctx]

RecordFirst(pred, roles, ctx, r) ==
    IF \E c \in firstRet : c.key = CallKey(pred, roles, ctx)
    THEN firstRet
    ELSE firstRet \cup {[key |-> CallKey(pred, roles, ctx), ret |-> r]}

AddEntity(ps) ==
    LET e == Cardinality(entities) + 1
    IN /\ entities' = entities \cup {e}
       /\ parents' = [parents EXCEPT ![e] = ps]
       /\ UNCHANGED <<entRelations, relations, lastOp, ret, firstRet, walkVars, tmpVars, ctxVars, engVars, extVars>>

AddRelation(pred, roles, rtype, ctx, tv) ==
    LET existing == FindExisting(pred, roles, ctx)
        r == Len(relations) + 1
    IN IF existing # 0
       THEN /\ lastOp' = "add_relation"
            /\ ret' = existing
            /\ firstRet' = RecordFirst(pred, roles, ctx, existing)
            /\ UNCHANGED <<entities, parents, entRelations, relations, walkVars, tmpVars, ctxVars, engVars, extVars>>
       ELSE /\ relations' = Append(RegisterDependent(relations, ctx, r),
                                   NewRelation(pred, roles, rtype, ctx, tv))
            /\ entRelations' = PropagateToDescendants(
                                   AttachToRoles(entRelations, DictValues(roles), r),
                                   entities, parents, roles, r)
            /\ lastOp' = "add_relation"
            /\ ret' = r
            /\ firstRet' = RecordFirst(pred, roles, ctx, r)
            /\ UNCHANGED <<entities, parents, walkVars, tmpVars, ctxVars, engVars, extVars>>

AddTemporalRelation(pred, roles, rtype, ctx, dt) ==
    LET existing == FindExistingTemporal(pred, roles, rtype, ctx)
        r == Len(relations) + 1
    IN IF existing # 0
       THEN /\ lastOp' = "add_temporal_relation"
            /\ ret' = existing
            /\ UNCHANGED <<entities, parents, entRelations, relations, firstRet, walkVars, tmpVars, ctxVars, engVars, extVars>>
       ELSE /\ relations' = RegisterDependent(
                                Append(relations, NewTemporalRelation(pred, roles, rtype, ctx, dt)),
                                ctx, r)
            /\ entRelations' = PropagateToDescendants(
                                   AttachToRoles(entRelations, DictValues(roles), r),
                                   entities, parents, roles, r)
            /\ lastOp' = "add_temporal_relation"
            /\ ret' = r
            /\ UNCHANGED <<entities, parents, firstRet, walkVars, tmpVars, ctxVars, engVars, extVars>>

OntInit ==
    /\ entities = {}
    /\ parents = [e \in EntityIds |-> {}]
    /\ entRelations = [e \in EntityIds |-> <<>>]
    /\ relations = <<>>
    /\ lastOp = "none"
    /\ ret = 0
    /\ firstRet = {}

\* The model's caps: at most NumEnt entities are created and at most MaxRels
\* relations registered (a call that returns an existing relation is never
\* capped).
CanAddEntity == Cardinality(entities) < NumEnt
CanAddRelation(existing) == existing # 0 \/ Len(relations) < MaxRels

----------------------------------------------------------------------------
\* Spec: the Ontology under calls that exercise the de-duplication key.
\* Two entities are created, without parents.  The calls draw their arguments
\* <<predicate, roles, relation_type, truth_value or default_truth>> from the
\* sets below: one roles mapping in both insertion orders, under two relation
\* types and truth values, and one call each with another roles dict and with
\* another predicate.

DedupEntities == {1, 2}

SO == <<<<"subject", 1>>, <<"object", 2>>>>
OS == <<<<"object", 2>>, <<"subject", 1>>>>

AddRelationArgs ==
    { <<"IS", SO, "GENERAL", "None">>,
      <<"IS", OS, "GENERAL", "None">>,
      <<"IS", SO, "contextual", "TRUE">>,
      <<"IS", OS, "contextual", "TRUE">>,
      <<"IS", <<<<"subject", 1>>>>, "GENERAL", "None">>,
      <<"HAS", SO, "GENERAL", "None">> }

AddTemporalRelationArgs ==
    { <<"IS", SO, "GENERAL", "None">>,
      <<"IS", OS, "GENERAL", "None">>,
      <<"IS", SO, "contextual", "TRUE">>,
      <<"IS", OS, "contextual", "TRUE">> }

UsesOnly(roles, ents) == \A i \in 1..Len(roles) : roles[i][2] \in ents

\* context arguments: none, or a registered relation
DedupContexts == {NoContext} \cup {RelContext(i) : i \in 1..Len(relations)}

\* No get_all_ancestors call is in progress.
WalkIdle ==
    /\ walkPhase = "idle"
    /\ walkStart = 0
    /\ walkStack = <<>>
    /\ walkSeen = {}
    /\ walkCalls = <<>>

\* No TemporalRelation is under observation.
TmpIdle ==
    /\ timeIntervals = <<>>
    /\ interval_truths = <<>>
    /\ default_truth = [value |-> "UNKNOWN"]
    /\ tmpCall = [op |-> "none"]

\* No RelationContext is under observation.
CtxIdle ==
    /\ ctxRels = <<>>
    /\ ctxCond = [op |-> "none"]
    /\ ctxCall = [op |-> "none"]

\* No predicate is registered and no truth operation was called.
EngIdle ==
    /\ predicates = <<>>
    /\ truthCall = [op |-> "none"]

\* No entity has a name yet, no alias is registered, no registry call was made.
RegIdle ==
    /\ entNames = [e \in EntityIds |-> "None"]
    /\ entAliases = [e \in EntityIds |-> <<>>]
    /\ alias_map = <<>>
    /\ entCall = [op |-> "none"]

\* No thread has started a call and the lock is free.
ThrIdle ==
    /\ lock = 0
    /\ pc = [t \in Threads |-> "idle"]
    /\ thrCall = [t \in Threads |-> [op |-> "none"]]
    /\ thrLocal = [t \in Threads |-> [r |-> 0, i |-> 0, ret |-> 0]]

\* No TruthValue is under observation.
TvIdle ==
    /\ tvObjs = <<>>
    /\ tvCall = [op |-> "none"]

\* Nothing was saved or loaded.
SerIdle ==
    /\ ioCall = [op |-> "none"]
    /\ quantified_relations = <<>>
    /\ savedFile = [kind |-> "none"]

\* No query was made.
QryIdle == qryCall = [op |-> "none"]

ExtIdle == RegIdle /\ ThrIdle /\ TvIdle /\ SerIdle /\ QryIdle

Init == OntInit /\ WalkIdle /\ TmpIdle /\ CtxIdle /\ EngIdle /\ ExtIdle

DedupAddEntity == entities # DedupEntities /\ AddEntity({})

DedupAddRelation ==
    \E a \in AddRelationArgs, ctx \in DedupContexts :
        /\ UsesOnly(a[2], entities)
        /\ CanAddRelation(FindExisting(a[1], a[2], ctx))
        /\ AddRelation(a[1], a[2], a[3], ctx, a[4])

DedupAddTemporalRelation ==
    \E a \in AddTemporalRelationArgs, ctx \in DedupContexts :
        /\ UsesOnly(a[2], entities)
        /\ CanAddRelation(FindExistingTemporal(a[1], a[2], a[3], ctx))
        /\ AddTemporalRelation(a[1], a[2], a[3], ctx, a[4])

Next ==
    \/ DedupAddEntity
    \/ DedupAddRelation
    \/ DedupAddTemporalRelation

Spec == Init /\ [][Next]_vars

KeyOfRelation(rel) == CallKey(rel.predicate, rel.roles, rel.context)

\* C1: an add_relation call whose (predicate, roles mapping, context) was
\* already passed to an earlier add_relation call returns the relation that
\* first call returned and changes nothing: Ontology.relations (its length,
\* and every relation's truth_value, relation_type and dependents) and every
\* entity's relations list stay as they were, whatever relation_type,
\* truth_value and insertion order of the roles the call passes.
C1_DedupIdempotent ==
    [][ ( /\ lastOp' = "add_relation"
          /\ ret' \in 1..Len(relations')
          /\ \E c \in firstRet : c.key = KeyOfRelation(relations'[ret']) )
        => ( /\ \A c \in firstRet :
                   c.key = KeyOfRelation(relations'[ret']) => c.ret = ret'
             /\ relations' = relations
             /\ entRelations' = entRelations ) ]_vars

\* A later add_relation call returned a relation that is not the newest one:
\* the relation its key was first answered with, stored with the roles in the
\* other insertion order than some later relation, and with dependents.
C1_Witness ==
    /\ lastOp = "add_relation"
    /\ Len(relations) = MaxRels
    /\ ret = 1
    /\ [key |-> KeyOfRelation(relations[1]), ret |-> 1] \in firstRet
    /\ relations[1].dependents # {}
    /\ relations[1].truth_value = "TRUE"

\* C2: Ontology.relations never holds two distinct relations with the same
\* predicate, the same roles mapping and the same context.
C2_NoDuplicateKeys ==
    \A i, j \in 1..Len(relations) :
        (i # j) => KeyOfRelation(relations[i]) # KeyOfRelation(relations[j])

----------------------------------------------------------------------------
\* SpecProp: the Ontology under calls that exercise the hierarchy: entities
\* are created with any set of already registered parents, and relations not
\* yet registered are asserted over the first two entities (one entity may
\* fill both roles).

PropRoles ==
    { <<<<"subject", 1>>>>,
      <<<<"subject", 2>>>>,
      <<<<"subject", 1>>, <<"object", 1>>>>,
      <<<<"subject", 2>>, <<"object", 1>>>> }

PropAddEntity == \E ps \in SUBSET entities : CanAddEntity /\ AddEntity(ps)

PropAddRelation ==
    \E roles \in PropRoles :
        /\ UsesOnly(roles, entities)
        /\ FindExisting("IS", roles, NoContext) = 0
        /\ CanAddRelation(0)
        /\ AddRelation("IS", roles, "GENERAL", NoContext, "None")

PropAddTemporalRelation ==
    \E roles \in PropRoles :
        /\ UsesOnly(roles, entities)
        /\ FindExistingTemporal("IS", roles, "GENERAL", NoContext) = 0
        /\ CanAddRelation(0)
        /\ AddTemporalRelation("IS", roles, "GENERAL", NoContext, "None")

NextProp ==
    \/ PropAddEntity
    \/ PropAddRelation
    \/ PropAddTemporalRelation

SpecProp == Init /\ [][NextProp]_vars

\* The entities reachable from e by one or more parent edges, as the least
\* fixed point of "add the parents of what is reached".
RECURSIVE ReachUp(_, _, _)
ReachUp(par, reached, n) ==
    IF n = 0 THEN reached
    ELSE ReachUp(par, reached \cup UNION {par[x] : x \in reached}, n - 1)

StrictAncestors(par, e) == ReachUp(par, par[e], NumEnt)

RoleEntities(rel) == {rel.roles[i][2] : i \in 1..Len(rel.roles)}

\* C3: right after add_relation or add_temporal_relation has created a
\* relation r, r is in the relations list of every role entity of r and of
\* every registered entity that has a role entity of r among its ancestors,
\* at any depth.
C3_PropagatedOnCreation ==
    [][ Len(relations') > Len(relations)
        => LET r == Len(relations')
               involved == RoleEntities(relations'[r])
           IN /\ \A e \in involved : InList(r, entRelations'[e])
              /\ \A e \in entities' :
                    (StrictAncestors(parents', e) \cap involved # {})
                        => InList(r, entRelations'[e]) ]_vars

\* A relation over entity 1 is attached to entity 3, whose only parent is
\* entity 2, whose parent is entity 1.
C3_Witness ==
    /\ parents[3] = {2}
    /\ parents[2] = {1}
    /\ \E r \in 1..Len(relations) :
          /\ RoleEntities(relations[r]) = {1}
          /\ InList(r, entRelations[3])

----------------------------------------------------------------------------
\* SpecAnc: Entity.get_all_ancestors, one step of the recursion at a time, on
\* every parents graph of NumNodes entities with at most MaxEdges parent
\* edges (self loops and cycles included: parents is a plain list attribute).
\* The parents list of an entity is modelled by the set of its members and
\* the for loop takes them in any order; a second occurrence of an entity in
\* the list is one more iteration that finds it in walkSeen.

Nodes == 1..NumNodes

RECURSIVE EdgeSets(_)
EdgeSets(k) ==
    IF k = 0 THEN {{}}
    ELSE LET smaller == EdgeSets(k - 1)
         IN smaller \cup {es \cup {e} : es \in smaller, e \in Nodes \X Nodes}

\* <<c, p>> in es: p is in c.parents
ParentsOfGraph(es) == [c \in Nodes |-> {p \in Nodes : <<c, p>> \in es}]

AncInit ==
    /\ entities = {}
    /\ \E es \in EdgeSets(MaxEdges) : parents = ParentsOfGraph(es)
    /\ entRelations = <<>>
    /\ relations = <<>>
    /\ lastOp = "none"
    /\ ret = 0
    /\ firstRet = {}
    /\ WalkIdle
    /\ TmpIdle
    /\ CtxIdle
    /\ EngIdle
    /\ ExtIdle

Frame(e) == [ent |-> e, todo |-> parents[e]]

Top == walkStack[Len(walkStack)]

\* e.get_all_ancestors(): seen = set(), and the for loop of e starts.
CallGetAllAncestors(e) ==
    /\ walkPhase = "idle"
    /\ walkPhase' = "running"
    /\ walkStart' = e
    /\ walkStack' = <<Frame(e)>>
    /\ walkSeen' = {}
    /\ walkCalls' = [n \in Nodes |-> 0]
    /\ UNCHANGED <<ontVars, tmpVars, ctxVars, engVars, extVars>>

\* A walk that keeps no track of what it has visited.
NotInSeenUntracked(p) == TRUE

\* The test `p not in seen` of the for loop.
NotInSeen(p) == p \notin walkSeen

\* for p in self.parents: p is in seen already, the loop goes on.
WalkSkip(p) ==
    /\ walkPhase = "running"
    /\ p \in Top.todo
    /\ ~NotInSeen(p)
    /\ walkStack' = [walkStack EXCEPT ![Len(walkStack)].todo = @ \ {p}]
    /\ UNCHANGED <<ontVars, tmpVars, ctxVars, walkPhase, walkStart, walkSeen, walkCalls, engVars, extVars>>

\* for p in self.parents: if p not in seen: seen.add(p); p.get_all_ancestors(seen)
\* (the model stops counting the calls on one entity at two).
WalkDescend(p) ==
    /\ walkPhase = "running"
    /\ p \in Top.todo
    /\ NotInSeen(p)
    /\ walkCalls[p] < 2
    /\ walkSeen' = walkSeen \cup {p}
    /\ walkCalls' = [walkCalls EXCEPT ![p] = @ + 1]
    /\ walkStack' = Append([walkStack EXCEPT ![Len(walkStack)].todo = @ \ {p}], Frame(p))
    /\ UNCHANGED <<ontVars, tmpVars, ctxVars, walkPhase, walkStart, engVars, extVars>>

\* The for loop of the top frame is over: return walkSeen.
WalkReturn ==
    /\ walkPhase = "running"
    /\ Top.todo = {}
    /\ walkStack' = SubSeq(walkStack, 1, Len(walkStack) - 1)
    /\ walkPhase' = IF Len(walkStack) = 1 THEN "done" ELSE "running"
    /\ UNCHANGED <<ontVars, tmpVars, ctxVars, walkStart, walkSeen, walkCalls, engVars, extVars>>

NextAnc ==
    \/ \E e \in Nodes : CallGetAllAncestors(e)
    \/ \E p \in Nodes : WalkSkip(p)
    \/ \E p \in Nodes : WalkDescend(p)
    \/ WalkReturn

SpecAnc == AncInit /\ [][NextAnc]_vars

\* What is left to do: the entities not yet seen weigh more than any frame
\* they can open.
RECURSIVE SumTodo(_)
SumTodo(st) ==
    IF st = <<>> THEN 0 ELSE Cardinality(Head(st).todo) + 1 + SumTodo(Tail(st))

WalkMeasure == (NumNodes - Cardinality(walkSeen)) * (NumNodes + 2) + SumTodo(walkStack)

\* C4: on every parents graph (chains, shared ancestors, cycles) every step
\* of get_all_ancestors brings the walk nearer to its end (a measure in the
\* naturals strictly decreases, so the call terminates), the recursion enters
\* an ancestor at most once, and the set returned is exactly the set of
\* entities reachable from the entity by one or more parent edges.
C4_AncestorsTerminate ==
    [][ walkPhase = "running"
        => /\ WalkMeasure' < WalkMeasure
           /\ WalkMeasure' >= 0
           /\ \A n \in Nodes : walkCalls'[n] <= 1
           /\ walkPhase' = "done"
                => /\ walkSeen' = ReachUp(parents, parents[walkStart], NumNodes)
                   /\ walkSeen' = GetAllAncestors(parents, walkStart) ]_vars

\* A finished walk over a diamond: two parents with a common parent.
C4_Witness ==
    /\ walkPhase = "done"
    /\ \E a, b, c \in Nodes \ {walkStart} :
          /\ a # b
          /\ parents[walkStart] = {a, b}
          /\ c \in parents[a] /\ c \in parents[b]
    /\ Cardinality(walkSeen) = NumNodes - 1

\* A finished walk from an entity that is its own ancestor.
C4_WitnessCycle ==
    /\ walkPhase = "done"
    /\ walkStart \in walkSeen
    /\ Cardinality(walkSeen) >= 2

\* ---------------------------------------------------------------------------
\* TimeInterval and TemporalRelation (src/core/temporal.py)
\* ---------------------------------------------------------------------------

\* An optional datetime is None or Some(t); datetimes are the moments 0..MaxTime.
None == <<>>
Some(t) == <<t>>
DatetimeMin == 0
DatetimeMax == MaxTime
Times == DatetimeMin..DatetimeMax

\* `x or d` on an optional datetime: a datetime is always truthy.
OrElse(x, d) == IF x = None THEN d ELSE x[1]

\* TruthValue(value); TruthValue() is UNKNOWN.
TruthValue(state) == [value |-> state]
\* `truth_value or TruthValue()` / `default_truth or TruthValue(UNKNOWN)`
TruthValueOrDefault(tv) == IF tv = "None" THEN TruthValue("UNKNOWN") ELSE TruthValue(tv)
\* TruthValue.evaluate() with sample_probability left False
Evaluate(tv) == tv.value

\* TimeInterval.contains with the end bound taken as closed.
ContainsClosedEnd(iv, moment) ==
    IF iv.start_time # None /\ moment < iv.start_time[1] THEN FALSE
    ELSE IF iv.end_time # None /\ moment > iv.end_time[1] THEN FALSE
    ELSE TRUE

\* TimeInterval.contains
Contains(iv, moment) ==
    IF iv.start_time # None /\ moment < iv.start_time[1] THEN FALSE
    ELSE IF iv.end_time # None /\ moment >= iv.end_time[1] THEN FALSE
    ELSE TRUE

\* TimeInterval.overlaps
Overlaps(a, b) ==
    LET start_a == OrElse(a.start_time, DatetimeMin)
        end_a   == OrElse(a.end_time, DatetimeMax)
        start_b == OrElse(b.start_time, DatetimeMin)
        end_b   == OrElse(b.end_time, DatetimeMax)
    IN  start_a < end_b /\ start_b < end_a

\* Position of a TimeInterval object among the keys of interval_truths, 0 if absent.
KeyIndex(d, iv) ==
    IF \E k \in 1..Len(d) : d[k].iv = iv
    THEN CHOOSE k \in 1..Len(d) : d[k].iv = iv
    ELSE 0

\* d[iv] = tv on a dict: an existing key keeps its place, a new key goes last.
DictSet(d, iv, tv) ==
    IF KeyIndex(d, iv) # 0
    THEN [d EXCEPT ![KeyIndex(d, iv)] = [iv |-> iv, tv |-> tv]]
    ELSE Append(d, [iv |-> iv, tv |-> tv])

\* del d[iv]
DictDel(d, iv) ==
    LET k == KeyIndex(d, iv)
    IN  [j \in 1..(Len(d) - 1) |-> IF j < k THEN d[j] ELSE d[j + 1]]

\* TemporalRelation(...) with the given default_truth argument
NewTemporal(dt) ==
    /\ tmpCall.op = "none"
    /\ default_truth' = TruthValueOrDefault(dt)
    /\ interval_truths' = <<>>
    /\ tmpCall' = [op |-> "TemporalRelation"]
    /\ UNCHANGED <<timeIntervals, ontVars, walkVars, ctxVars, engVars, extVars>>

\* TimeInterval(start_time, end_time)
NewTimeInterval(start_time, end_time) ==
    /\ tmpCall.op # "none"
    /\ Len(timeIntervals) < MaxIntervals
    /\ timeIntervals' = Append(timeIntervals, [start_time |-> start_time, end_time |-> end_time])
    /\ tmpCall' = [op |-> "TimeInterval"]
    /\ UNCHANGED <<interval_truths, default_truth, ontVars, walkVars, ctxVars, engVars, extVars>>

\* TimeInterval.modify(start_time, end_time), None meaning the argument is left out
Modify(iv, start_time, end_time) ==
    /\ tmpCall.op # "none"
    /\ IF start_time # None /\ end_time # None /\ start_time[1] >= end_time[1]
       THEN /\ tmpCall' = [op |-> "modify", outcome |-> "ValueError"]
            /\ UNCHANGED timeIntervals
       ELSE /\ timeIntervals' =
                 [timeIntervals EXCEPT
                    ![iv] = [start_time |-> IF start_time # None THEN start_time ELSE @.start_time,
                             end_time   |-> IF end_time # None THEN end_time ELSE @.end_time]]
            /\ tmpCall' = [op |-> "modify", outcome |-> "ok"]
    /\ UNCHANGED <<interval_truths, default_truth, ontVars, walkVars, ctxVars, engVars, extVars>>

\* TemporalRelation.add_interval(interval, truth_value)
AddInterval(iv, tv) ==
    /\ tmpCall.op # "none"
    /\ IF \E k \in 1..Len(interval_truths) :
             Overlaps(timeIntervals[iv], timeIntervals[interval_truths[k].iv])
       THEN /\ tmpCall' = [op |-> "add_interval", iv |-> iv, outcome |-> "ValueError"]
            /\ UNCHANGED interval_truths
       ELSE /\ interval_truths' = DictSet(interval_truths, iv, TruthValueOrDefault(tv))
            /\ tmpCall' = [op |-> "add_interval", iv |-> iv, outcome |-> "ok"]
    /\ UNCHANGED <<timeIntervals, default_truth, ontVars, walkVars, ctxVars, engVars, extVars>>

\* TemporalRelation.remove_interval(interval)
RemoveInterval(iv) ==
    /\ tmpCall.op # "none"
    /\ interval_truths' = IF KeyIndex(interval_truths, iv) # 0
                          THEN DictDel(interval_truths, iv)
                          ELSE interval_truths
    /\ tmpCall' = [op |-> "remove_interval"]
    /\ UNCHANGED <<timeIntervals, default_truth, ontVars, walkVars, ctxVars, engVars, extVars>>

\* TemporalRelation.clear_intervals()
ClearIntervals ==
    /\ tmpCall.op # "none"
    /\ interval_truths' = <<>>
    /\ tmpCall' = [op |-> "clear_intervals"]
    /\ UNCHANGED <<timeIntervals, default_truth, ontVars, walkVars, ctxVars, engVars, extVars>>

\* The first key of interval_truths, in iteration order, that contains the moment; 0 if none.
FirstContaining(d, ivs, moment) ==
    LET hits == {k \in 1..Len(d) : Contains(ivs[d[k].iv], moment)}
    IN  IF hits = {} THEN 0 ELSE CHOOSE k \in hits : \A j \in hits : k <= j

\* TemporalRelation.truth_value_at(moment)
TruthValueAt(moment) ==
    LET k == FirstContaining(interval_truths, timeIntervals, moment)
    IN  IF k = 0 THEN Evaluate(default_truth) ELSE Evaluate(interval_truths[k].tv)

\* A call of truth_value_at; the state is left as it is.
CallTruthValueAt(moment) ==
    /\ tmpCall.op # "none"
    /\ tmpCall' = [op |-> "truth_value_at", moment |-> moment, result |-> TruthValueAt(moment)]
    /\ UNCHANGED <<timeIntervals, interval_truths, default_truth, ontVars, walkVars, ctxVars, engVars, extVars>>

\* datetime.isoformat and datetime.fromisoformat
Isoformat(t) == [iso |-> t]
FromIsoformat(str) == str.iso

\* `datetime.fromisoformat(d[key]) if d.get(key) else None`
ParseOptTime(x) == IF x # None THEN Some(FromIsoformat(x[1])) ELSE None

\* One entry of data["interval_truths"]; truth_value is "None" or a serialized TruthValue.
IntervalDict(start, end, tv) ==
    [start_time |-> IF start = None THEN None ELSE Some(Isoformat(start[1])),
     end_time   |-> IF end = None THEN None ELSE Some(Isoformat(end[1])),
     truth_value |-> tv]

\* TemporalRelation.from_dict(data, ontology): on success the relation it
\* returns, with the TimeInterval objects it created, is the one observed from
\* then on.  TruthValue has no from_dict, so any serialized truth value in the
\* data ends the call with AttributeError.
FromDict(data) ==
    /\ tmpCall.op # "none"
    /\ Len(data.interval_truths) <= MaxIntervals
    /\ IF \/ data.default_truth # "None"
          \/ \E k \in 1..Len(data.interval_truths) : data.interval_truths[k].truth_value # "None"
       THEN /\ tmpCall' = [op |-> "from_dict", outcome |-> "AttributeError"]
            /\ UNCHANGED <<timeIntervals, interval_truths, default_truth, engVars, extVars>>
       ELSE /\ timeIntervals' =
                 [k \in 1..Len(data.interval_truths) |->
                    [start_time |-> ParseOptTime(data.interval_truths[k].start_time),
                     end_time   |-> ParseOptTime(data.interval_truths[k].end_time)]]
            /\ interval_truths' =
                 [k \in 1..Len(data.interval_truths) |-> [iv |-> k, tv |-> TruthValue("UNKNOWN")]]
            /\ default_truth' = TruthValue("UNKNOWN")
            /\ tmpCall' = [op |-> "from_dict", outcome |-> "ok"]
    /\ UNCHANGED <<ontVars, walkVars, ctxVars, engVars, extVars>>

\* The serialized relations given to from_dict.
FromDictData ==
    { [default_truth |-> "None", interval_truths |-> <<>>],
      [default_truth |-> "None",
       interval_truths |-> <<IntervalDict(Some(DatetimeMin), Some(DatetimeMax), "None")>>],
      [default_truth |-> "None",
       interval_truths |-> <<IntervalDict(Some(DatetimeMin), Some(DatetimeMax), "None"),
                             IntervalDict(Some(DatetimeMax), None, "None")>>],
      [default_truth |-> "None",
       interval_truths |-> <<IntervalDict(Some(DatetimeMin), None, "None"),
                             IntervalDict(None, Some(DatetimeMax), "None")>>],
      [default_truth |-> "None",
       interval_truths |-> <<IntervalDict(Some(DatetimeMin), Some(DatetimeMax), "TRUE")>>],
      [default_truth |-> "FALSE", interval_truths |-> <<>>] }

TruthArgs == {"TRUE"}
DefaultTruthArgs == {"None", "FALSE"}

\* The (start_time, end_time) given to TimeInterval(...): a bounded interval,
\* the interval without end that starts where the bounded one ends, the
\* unbounded interval, and an interval whose start lies after its end.
TimeIntervalArgs ==
    { <<Some(DatetimeMin), Some(DatetimeMax)>>,
      <<Some(DatetimeMax), None>>,
      <<None, None>>,
      <<Some(DatetimeMax), Some(DatetimeMin)>> }

\* The (start_time, end_time) given to modify, None for an argument left out.
ModifyArgs ==
    { <<Some(DatetimeMin), None>>,
      <<Some(DatetimeMax), None>>,
      <<None, Some(DatetimeMax)>>,
      <<Some(DatetimeMin), Some(DatetimeMax)>>,
      <<Some(DatetimeMax), Some(DatetimeMin)>> }

NextTmp ==
    \/ \E dt \in DefaultTruthArgs : NewTemporal(dt)
    \/ \E a \in TimeIntervalArgs : NewTimeInterval(a[1], a[2])
    \/ \E iv \in 1..Len(timeIntervals) : \E a \in ModifyArgs : Modify(iv, a[1], a[2])
    \/ \E iv \in 1..Len(timeIntervals) : \E tv \in TruthArgs : AddInterval(iv, tv)
    \/ \E iv \in 1..Len(timeIntervals) : RemoveInterval(iv)
    \/ ClearIntervals
    \/ \E m \in Times : CallTruthValueAt(m)
    \/ \E data \in FromDictData : FromDict(data)

SpecTemporal == Init /\ [][NextTmp]_vars

\* The moment lies in the half-open interval [start, end), a missing bound
\* being unbounded on its side.
InInterval(iv, m) ==
    /\ iv.start_time = None \/ iv.start_time[1] <= m
    /\ iv.end_time = None \/ m < iv.end_time[1]

\* Two intervals overlap when some moment lies in both.
SharesMoment(a, b) == \E m \in Times : InInterval(a, m) /\ InInterval(b, m)

\* If both bounds are present, start < end.
WellFormed(iv) ==
    (iv.start_time # None /\ iv.end_time # None) => iv.start_time[1] < iv.end_time[1]

\* The stored interval at position k of interval_truths.
Stored(k) == timeIntervals[interval_truths[k].iv]

\* a ends where b starts.
Touches(a, b) == a.end_time # None /\ a.end_time = b.start_time

\* C5: a call of add_interval with an interval that overlaps a stored interval
\* fails with the overlap error and leaves interval_truths (keys, values and
\* order) as it was; an interval that only touches a stored interval, and
\* overlaps none, is accepted and stored next to it.
C5_OverlapRejected ==
    [][ tmpCall'.op = "add_interval" =>
          LET i == timeIntervals[tmpCall'.iv]
              n == Len(interval_truths)
          IN  /\ (\E k \in 1..n : SharesMoment(i, Stored(k)))
                    => /\ tmpCall'.outcome = "ValueError"
                       /\ interval_truths' = interval_truths
              /\ ( /\ KeyIndex(interval_truths, tmpCall'.iv) = 0
                   /\ WellFormed(i)
                   /\ \A k \in 1..n : WellFormed(Stored(k)) /\ ~SharesMoment(i, Stored(k))
                   /\ \E k \in 1..n : Touches(Stored(k), i) \/ Touches(i, Stored(k)) )
                    => /\ tmpCall'.outcome = "ok"
                       /\ Len(interval_truths') = n + 1
                       /\ interval_truths'[n + 1].iv = tmpCall'.iv
                       /\ \A k \in 1..n : interval_truths'[k] = interval_truths[k] ]_vars

\* C6: the stored intervals are pairwise non-overlapping: every moment lies in
\* at most one stored interval.
C6_PairwiseNonOverlapping ==
    \A m \in Times :
        Cardinality({k \in 1..Len(interval_truths) : InInterval(Stored(k), m)}) <= 1

\* C7: truth_value_at(m) returns the state stored for a stored interval
\* [start, end) with start <= m < end, and the state of default_truth when no
\* stored interval contains m.
C7_TruthValueAtHalfOpen ==
    tmpCall.op = "truth_value_at" =>
        LET holders == {k \in 1..Len(interval_truths) : InInterval(Stored(k), tmpCall.moment)}
        IN  IF holders = {}
            THEN tmpCall.result = default_truth.value
            ELSE \E k \in holders : tmpCall.result = interval_truths[k].tv.value

\* truth_value_at asked at the end of a stored interval answers the default.
C7_Witness ==
    /\ tmpCall.op = "truth_value_at"
    /\ default_truth.value = "FALSE"
    /\ tmpCall.result = "FALSE"
    /\ \E k \in 1..Len(interval_truths) :
          /\ Stored(k).start_time = Some(DatetimeMin)
          /\ Stored(k).end_time = Some(tmpCall.moment)
          /\ interval_truths[k].tv.value = "TRUE"

\* truth_value_at asked at the start of a stored interval answers its value.
C7_WitnessStart ==
    /\ tmpCall.op = "truth_value_at"
    /\ default_truth.value = "FALSE"
    /\ tmpCall.result = "TRUE"
    /\ \E k \in 1..Len(interval_truths) :
          /\ Stored(k).start_time = Some(tmpCall.moment)
          /\ Stored(k).end_time # None
          /\ interval_truths[k].tv.value = "TRUE"

\* C8: every TimeInterval with both bounds present has start < end, after
\* construction and after every call of modify.
C8_StartBeforeEnd ==
    \A iv \in 1..Len(timeIntervals) : WellFormed(timeIntervals[iv])

\* a sorts no later than b by start, a missing start sorting first.
StartLeq(a, b) ==
    \/ a.start_time = None
    \/ b.start_time # None /\ a.start_time[1] <= b.start_time[1]

\* C9: after a successful add_interval the stored intervals iterate in
\* ascending order of start, an interval without a start first.
C9_OrderedByStart ==
    (tmpCall.op = "add_interval" /\ tmpCall.outcome = "ok")
        => \A j, k \in 1..Len(interval_truths) : j < k => StartLeq(Stored(j), Stored(k))

\* ---------------------------------------------------------------------------
\* RelationContext (src/core/context.py)
\* ---------------------------------------------------------------------------

\* Operands of a condition tuple: a Relation, a RelationContext holding a
\* condition tuple, or a bare tuple.
RelationOperand(i) == [kind |-> "relation", id |-> i]
ContextOperand(op, args) == [kind |-> "context", op |-> op, args |-> args]
TupleOperand(op, args) == [kind |-> "tuple", op |-> op, args |-> args]
\* RelationContext(callable): the operand is a context whose condition is a
\* callable; result is what the callable returns, a TruthValue or Plain(b).
CallableOperand(result) == [kind |-> "callable", result |-> result]
Plain(b) == [plain |-> b]

\* TruthValue(state, probability=probability); a record without the
\* probability field has probability None.
TruthValueWith(state, probability) == [value |-> state, probability |-> probability]

\* An exception raised by evaluate.
Raised(name) == [error |-> name]
IsRaised(v) == "error" \in DOMAIN v

\* A leaf evaluation that does not read the Relation.
EvaluateTruthUnread(rel) == "UNKNOWN"

\* Relation.evaluate_truth() of a Relation without context
EvaluateTruth(rel) == rel.value

\* any(v.value == state for v in vals), looking at the first operand only.
AnyIsFirst(vals, state) == Len(vals) > 0 /\ vals[1].value = state

\* any(v.value == state for v in vals)
AnyIs(vals, state) == \E k \in 1..Len(vals) : vals[k].value = state

\* all(v.value == state for v in vals)
AllAre(vals, state) == \A k \in 1..Len(vals) : vals[k].value = state

\* The count of operands that are not FALSE.
NotFalseCount(vals) == Cardinality({k \in 1..Len(vals) : vals[k].value # "FALSE"})

\* sum(v.value == TruthState.TRUE for v in vals)
TrueCount(vals) == Cardinality({k \in 1..Len(vals) : vals[k].value = "TRUE"})

\* The NOT case with a fresh TruthValue made for every state.
NegateFresh(tv) ==
    IF tv.value = "TRUE" THEN TruthValue("FALSE")
    ELSE IF tv.value = "FALSE" THEN TruthValue("TRUE")
    ELSE TruthValue(tv.value)

\* The NOT case: TRUE and FALSE are swapped, any other operand is returned as it is.
Negate(tv) ==
    IF tv.value = "TRUE" THEN TruthValue("FALSE")
    ELSE IF tv.value = "FALSE" THEN TruthValue("TRUE")
    ELSE tv

\* The operator dispatch of evaluate on the evaluated operands; nested is the
\* value of RelationContext(("NOT", (inner, *args))).evaluate().
Apply(op, vals, nested) ==
    CASE op = "NOT" ->
           IF Len(vals) = 0 THEN Raised("IndexError") ELSE Negate(vals[1])
      [] op = "AND" ->
           IF AnyIs(vals, "FALSE") THEN TruthValue("FALSE")
           ELSE IF AllAre(vals, "TRUE") THEN TruthValue("TRUE")
           ELSE TruthValue("UNKNOWN")
      [] op = "OR" ->
           IF AnyIs(vals, "TRUE") THEN TruthValue("TRUE")
           ELSE IF AllAre(vals, "FALSE") THEN TruthValue("FALSE")
           ELSE TruthValue("UNKNOWN")
      [] op = "XOR" ->
           IF AnyIs(vals, "UNKNOWN") THEN TruthValue("UNKNOWN")
           ELSE IF TrueCount(vals) % 2 = 1 THEN TruthValue("TRUE") ELSE TruthValue("FALSE")
      [] op \in {"NAND", "NOR"} -> nested
      [] op = "XNOR" ->
           IF AnyIs(vals, "UNKNOWN") THEN TruthValue("UNKNOWN") ELSE nested
      [] OTHER -> Raised("ValueError")

\* The operator that NAND, NOR and XNOR negate.
Inner(op) ==
    CASE op = "NAND" -> "AND"
      [] op = "NOR" -> "OR"
      [] op = "XNOR" -> "XOR"

RECURSIVE EvaluateCondition(_, _, _)
\* RelationContext.evaluate() of a context whose condition is (op, *args)
EvaluateCondition(op, args, rels) ==
    LET \* RelationContext.ensure(a).evaluate(): ensure refuses a bare tuple
        Operand(a) ==
            IF a.kind = "tuple" THEN Raised("TypeError")
            ELSE IF a.kind = "relation" THEN TruthValue(EvaluateTruth(rels[a.id]))
            ELSE IF a.kind = "callable"
                 THEN IF "value" \in DOMAIN a.result THEN a.result
                      ELSE TruthValue(IF a.result.plain THEN "TRUE" ELSE "FALSE")
            ELSE EvaluateCondition(a.op, a.args, rels)
        vals == [k \in 1..Len(args) |-> Operand(args[k])]
        bad == {k \in 1..Len(args) : IsRaised(vals[k])}
        nested == EvaluateCondition("NOT", <<TupleOperand(Inner(op), args)>>, rels)
    IN  IF bad # {}
        THEN vals[CHOOSE k \in bad : \A j \in bad : k <= j]
        ELSE Apply(op, vals, nested)

\* Relation(predicate, roles, truth_value=TruthValue(state)), no context
NewOperandRelation(state) ==
    /\ Len(ctxRels) < MaxOperands
    /\ ctxRels' = Append(ctxRels, TruthValue(state))
    /\ ctxCall' = [op |-> "Relation"]
    /\ UNCHANGED <<ctxCond, ontVars, walkVars, tmpVars, engVars, extVars>>

\* Relation.set_truth_value(TruthValue(state)) on an operand; it has no dependents
SetTruthValue(i, state) ==
    /\ ctxRels' = IF state # ctxRels[i].value
                  THEN [ctxRels EXCEPT ![i] = TruthValue(state)]
                  ELSE ctxRels
    /\ ctxCall' = [op |-> "set_truth_value"]
    /\ UNCHANGED <<ctxCond, ontVars, walkVars, tmpVars, engVars, extVars>>

\* RelationContext((op, *relations)) over all the operand Relations, in order
NewRelationContext(op) ==
    /\ ctxCond' = [op |-> op, args |-> [k \in 1..Len(ctxRels) |-> RelationOperand(k)]]
    /\ ctxCall' = [op |-> "RelationContext"]
    /\ UNCHANGED <<ctxRels, ontVars, walkVars, tmpVars, engVars, extVars>>

\* RelationContext.evaluate() on the context under observation
CallEvaluate ==
    /\ ctxCond.op # "none"
    /\ ctxCall' = [op |-> "evaluate",
                   result |-> EvaluateCondition(ctxCond.op, ctxCond.args, ctxRels)]
    /\ UNCHANGED <<ctxRels, ctxCond, ontVars, walkVars, tmpVars, engVars, extVars>>

\* The operators handed to RelationContext, one of them unknown to evaluate.
Operators == {"NOT", "AND", "OR", "XOR", "NAND", "NOR", "XNOR", "IMPLIES"}

NextCtx ==
    \/ \E state \in TruthStates : NewOperandRelation(state)
    \/ \E i \in 1..Len(ctxRels) : \E state \in TruthStates : SetTruthValue(i, state)
    \/ \E op \in Operators : NewRelationContext(op)
    \/ CallEvaluate

SpecCtx == Init /\ [][NextCtx]_vars

\* The truth states of the operands of the condition, in order.
OperandStates == [k \in 1..Len(ctxCond.args) |-> ctxRels[ctxCond.args[k].id].value]

C10_WitnessOr ==
    /\ ctxCall.op = "evaluate"
    /\ ctxCond.op = "OR"
    /\ \E j, k \in 1..Len(ctxCond.args) :
          OperandStates[j] = "FALSE" /\ OperandStates[k] = "UNKNOWN"
    /\ \A k \in 1..Len(ctxCond.args) : OperandStates[k] # "TRUE"
    /\ ctxCall.result = [value |-> "UNKNOWN"]

\* C11: a binary AND or OR in which no operand decides the result (no FALSE
\* under AND, no TRUE under OR) and some operand is SUPERPOSITION evaluates to
\* SUPERPOSITION; UNKNOWN AND TRUE evaluates to UNKNOWN and UNKNOWN AND FALSE
\* to FALSE.
C11_SuperpositionDominates ==
    (ctxCall.op = "evaluate" /\ ctxCond.op \in {"AND", "OR"} /\ Len(ctxCond.args) = 2) =>
        LET states == {OperandStates[1], OperandStates[2]}
            deciding == IF ctxCond.op = "AND" THEN "FALSE" ELSE "TRUE"
        IN  /\ (deciding \notin states /\ "SUPERPOSITION" \in states)
                 => ctxCall.result = [value |-> "SUPERPOSITION"]
            /\ (ctxCond.op = "AND" /\ states = {"UNKNOWN", "TRUE"})
                 => ctxCall.result = [value |-> "UNKNOWN"]
            /\ (ctxCond.op = "AND" /\ states = {"UNKNOWN", "FALSE"})
                 => ctxCall.result = [value |-> "FALSE"]

\* ---------------------------------------------------------------------------
\* RelationContext expressions built with ~, &, |, ^, nand, nor, xnor
\* ---------------------------------------------------------------------------

SomeProbability == "0.7"

\* What the callables wrapped in a RelationContext return.
CallableResults ==
    { TruthValueWith("SUPERPOSITION", SomeProbability), TruthValue("UNKNOWN"),
      TruthValue("TRUE"), Plain(FALSE) }

\* RelationContext.__invert__: ~x
Invert(x) == [op |-> "NOT", args |-> <<x>>]
\* RelationContext.__and__, __or__, __xor__, nand, nor, xnor: the condition (op, self, ensure(other))
Binary(op, x, y) == [op |-> op, args |-> <<x, y>>]
\* A RelationContext with the given tuple condition, used as an operand.
AsOperand(cond) == ContextOperand(cond.op, cond.args)

\* The expression A AND (NOT C OR B) over the first three operand Relations.
ComplexExpression ==
    Binary("AND", RelationOperand(1),
           AsOperand(Binary("OR", AsOperand(Invert(RelationOperand(3))), RelationOperand(2))))

\* The expressions over the first n operand Relations (each wrapped in a
\* RelationContext) and over the callables.
ContextTrees(n) ==
    {Invert(RelationOperand(i)) : i \in 1..n}
    \cup {Invert(AsOperand(Invert(RelationOperand(i)))) : i \in 1..n}
    \cup {Invert(CallableOperand(c)) : c \in CallableResults}
    \cup {Invert(AsOperand(Invert(CallableOperand(c)))) : c \in CallableResults}
    \cup (IF n < 2 THEN {}
          ELSE {Binary(op, RelationOperand(1), RelationOperand(2)) :
                    op \in {"AND", "OR", "XOR", "NAND", "NOR", "XNOR"}}
               \cup {Invert(AsOperand(Binary(op, RelationOperand(1), RelationOperand(2)))) :
                    op \in {"AND", "OR", "XOR"}})
    \cup (IF n < 3 THEN {} ELSE {ComplexExpression})

\* ctx = <expression>: the context under observation becomes the expression
NewContextTree(cond) ==
    /\ ctxCond' = cond
    /\ ctxCall' = [op |-> "RelationContext"]
    /\ UNCHANGED <<ctxRels, ontVars, walkVars, tmpVars, engVars, extVars>>

\* Relation(predicate, roles, truth_value=TruthValue(SUPERPOSITION, probability=0.7)), no context
NewSuperposedRelation ==
    /\ Len(ctxRels) < MaxOperands
    /\ ctxRels' = Append(ctxRels, TruthValueWith("SUPERPOSITION", SomeProbability))
    /\ ctxCall' = [op |-> "Relation"]
    /\ UNCHANGED <<ctxCond, ontVars, walkVars, tmpVars, engVars, extVars>>

NextCtxTree ==
    \/ \E state \in TruthStates : NewOperandRelation(state)
    \/ NewSuperposedRelation
    \/ \E i \in 1..Len(ctxRels) : \E state \in TruthStates : SetTruthValue(i, state)
    \/ \E cond \in ContextTrees(Len(ctxRels)) : NewContextTree(cond)
    \/ CallEvaluate

SpecCtxTree == Init /\ [][NextCtxTree]_vars

\* The TruthValue an operand that is a Relation or a callable evaluates to:
\* the state of the Relation, or what the callable returned.
LeafValue(a) ==
    IF a.kind = "relation" THEN [value |-> ctxRels[a.id].value]
    ELSE IF "value" \in DOMAIN a.result THEN a.result
    ELSE [value |-> IF a.result.plain THEN "TRUE" ELSE "FALSE"]

IsLeaf(a) == a.kind \in {"relation", "callable"}

\* C12: NOT maps TRUE to FALSE and FALSE to TRUE and returns an UNKNOWN or
\* SUPERPOSITION operand as it is, with its probability; NOT(NOT(x)) has the
\* truth state of x.
C12_NotSwaps ==
    (ctxCall.op = "evaluate" /\ ctxCond.op = "NOT") =>
        LET a == ctxCond.args[1]
        IN  /\ IsLeaf(a) =>
                 ctxCall.result =
                    CASE LeafValue(a).value = "TRUE" -> [value |-> "FALSE"]
                      [] LeafValue(a).value = "FALSE" -> [value |-> "TRUE"]
                      [] OTHER -> LeafValue(a)
            /\ (a.kind = "context" /\ a.op = "NOT" /\ IsLeaf(a.args[1])) =>
                 /\ ~IsRaised(ctxCall.result)
                 /\ ctxCall.result.value = LeafValue(a.args[1]).value

\* NOT of a callable's SUPERPOSITION with a probability returned it with that probability.
C12_Witness ==
    /\ ctxCall.op = "evaluate"
    /\ ctxCond = Invert(CallableOperand(TruthValueWith("SUPERPOSITION", SomeProbability)))
    /\ ctxCall.result = TruthValueWith("SUPERPOSITION", SomeProbability)

\* NOT(NOT(x)) of a Relation in state SUPERPOSITION was evaluated.
C12_WitnessDouble ==
    /\ ctxCall.op = "evaluate"
    /\ \E i \in 1..Len(ctxRels) :
          /\ ctxCond = Invert(AsOperand(Invert(RelationOperand(i))))
          /\ ctxRels[i].value = "SUPERPOSITION"
    /\ ctxCall.result.value = "SUPERPOSITION"

\* C13: over every list of operand truth states, XOR evaluates to UNKNOWN if
\* any operand is UNKNOWN, otherwise to TRUE when an odd number of operands are
\* TRUE and to FALSE when that number is even, SUPERPOSITION counting as not TRUE.
C13_XorParity ==
    (ctxCall.op = "evaluate" /\ ctxCond.op = "XOR") =>
        LET states == OperandStates
            n == Len(states)
            trues == {k \in 1..n : states[k] = "TRUE"}
        IN  ctxCall.result =
              [value |-> IF \E k \in 1..n : states[k] = "UNKNOWN" THEN "UNKNOWN"
                         ELSE IF Cardinality(trues) % 2 = 1 THEN "TRUE"
                         ELSE "FALSE"]

\* XOR over one SUPERPOSITION operand and an even number of TRUE operands gave FALSE.
C13_Witness ==
    /\ ctxCall.op = "evaluate"
    /\ ctxCond.op = "XOR"
    /\ Len(ctxCond.args) = MaxOperands
    /\ \E j \in 1..Len(ctxCond.args) :
          /\ OperandStates[j] = "SUPERPOSITION"
          /\ \A i \in 1..Len(ctxCond.args) : i # j => OperandStates[i] = "TRUE"
    /\ ctxCall.result = [value |-> "FALSE"]

\* C14: a.nand(b), a.nor(b) and a.xnor(b) evaluate without error to the truth
\* state of NOT(a AND b), NOT(a OR b) and NOT(a XOR b).
C14_NegatedForms ==
    \A op \in {"NAND", "NOR", "XNOR"} :
        (ctxCall.op = "evaluate" /\ ctxCond = Binary(op, RelationOperand(1), RelationOperand(2)))
            => LET negated == Invert(AsOperand(Binary(Inner(op), RelationOperand(1), RelationOperand(2))))
                   expected == EvaluateCondition(negated.op, negated.args, ctxRels)
               IN  /\ ~IsRaised(ctxCall.result)
                   /\ ctxCall.result.value = expected.value

\* The tables of NOT, AND and OR on two truth states.
TableNot(x) == CASE x = "TRUE" -> "FALSE" [] x = "FALSE" -> "TRUE" [] OTHER -> x
TableAnd(x, y) ==
    IF "FALSE" \in {x, y} THEN "FALSE" ELSE IF {x, y} = {"TRUE"} THEN "TRUE" ELSE "UNKNOWN"
TableOr(x, y) ==
    IF "TRUE" \in {x, y} THEN "TRUE" ELSE IF {x, y} = {"FALSE"} THEN "FALSE" ELSE "UNKNOWN"

\* C15: evaluate() changes no relation's stored truth value and returns what
\* the expression gives on the current truth states of its leaves, whatever
\* was evaluated or set before; A AND (NOT C OR B) follows the tables on the
\* current states of A, B and C.
C15_PullBased ==
    [][ ctxCall'.op = "evaluate" =>
          /\ ctxRels' = ctxRels
          /\ ctxCond' = ctxCond
          /\ ctxCall'.result = EvaluateCondition(ctxCond.op, ctxCond.args, ctxRels)
          /\ ctxCond = ComplexExpression =>
                ctxCall'.result =
                   [value |-> TableAnd(ctxRels[1].value,
                                       TableOr(TableNot(ctxRels[3].value), ctxRels[2].value))] ]_vars

\* A AND (NOT C OR B) evaluated with A = FALSE, B = TRUE, C = FALSE gave FALSE.
C15_Witness ==
    /\ ctxCall.op = "evaluate"
    /\ ctxCond = ComplexExpression
    /\ ctxRels[1].value = "FALSE" /\ ctxRels[2].value = "TRUE" /\ ctxRels[3].value = "FALSE"
    /\ ctxCall.result = [value |-> "FALSE"]

\* A AND (NOT C OR B) evaluated with A = TRUE, B = TRUE, C = FALSE gave TRUE.
C15_WitnessBefore ==
    /\ ctxCall.op = "evaluate"
    /\ ctxCond = ComplexExpression
    /\ ctxRels[1].value = "TRUE" /\ ctxRels[2].value = "TRUE" /\ ctxRels[3].value = "FALSE"
    /\ ctxCall.result = [value |-> "TRUE"]

\* ---------------------------------------------------------------------------
\* Truth maintenance of Relation (src/core/relation.py) and
\* Ontology.refresh_context_relations
\* ---------------------------------------------------------------------------

\* The contexts of a Relation besides None and another Relation: a
\* RelationContext (here the one wrapping relation i), a callable returning
\* result, and a plain Python bool ("True" or "False").
RelationContextOver(i) == [kind |-> "relation_context", id |-> i]
CallableContext(result) == [kind |-> "callable", result |-> result]
PlainContext(value) == [kind |-> "plain", value |-> value]

Exceptions == {"AttributeError", "RecursionError"}

RECURSIVE EvaluateTruthFrom(_, _, _)
\* Relation.evaluate_truth() at recursion depth `depth`: a truth state, a raw
\* Python value, or the exception raised.  RelationContext has no method
\* evaluate_truth.  A chain of Relation contexts longer than the number of
\* relations is a cycle, on which the recursion only ends at the
\* interpreter's recursion limit.
EvaluateTruthFrom(rels, r, depth) ==
    LET ctx == rels[r].context
    IN  CASE ctx.kind = "relation" ->
                 IF depth >= Len(rels) THEN "RecursionError"
                 ELSE EvaluateTruthFrom(rels, ctx.id, depth + 1)
          [] ctx.kind = "relation_context" -> "AttributeError"
          [] ctx.kind = "callable" -> ctx.result
          [] ctx.kind = "plain" -> ctx.value
          [] OTHER -> rels[r].truth_value

RelationEvaluateTruth(rels, r) == EvaluateTruthFrom(rels, r, 0)

\* A propagation pass: the relations, the relations whose cached value was
\* rewritten (in order), the relations update_from_context was called on (in
\* order), the set `visited` of refresh_context_relations, and the exception
\* that ended the pass ("None" if none).
Pass(rels) == [rels |-> rels, updated |-> <<>>, called |-> <<>>, visited |-> {}, error |-> "None"]

RECURSIVE UpdateFromContext(_, _)
RECURSIVE UpdateDependents(_, _)
\* Relation.update_from_context() on r
UpdateFromContext(st, r) ==
    IF st.error # "None" THEN st
    ELSE LET new_truth == RelationEvaluateTruth(st.rels, r)
             st1 == [st EXCEPT !.called = Append(@, r)]
         IN  IF new_truth \in Exceptions THEN [st1 EXCEPT !.error = new_truth]
             ELSE IF new_truth # st.rels[r].truth_value
                  THEN UpdateDependents(
                           [st1 EXCEPT !.rels[r].truth_value = new_truth,
                                       !.updated = Append(@, r)],
                           st.rels[r].dependents)
                  ELSE st1

\* for dep in self.dependents: dep.update_from_context().  The set is iterated
\* smallest first; every dependent evaluates through the same context chain,
\* so another order gives the same pass up to the order of the log.
UpdateDependents(st, deps) ==
    IF deps = {} THEN st
    ELSE LET dep == CHOOSE x \in deps : \A y \in deps : x <= y
         IN  UpdateDependents(UpdateFromContext(st, dep), deps \ {dep})

\* Relation.set_truth_value(TruthValue(v)) on r
SetTruthValuePass(rels, r, v) ==
    IF v # rels[r].truth_value
    THEN UpdateDependents([Pass(rels) EXCEPT !.rels[r].truth_value = v,
                                             !.updated = <<r>>],
                          rels[r].dependents)
    ELSE Pass(rels)

\* bool(r.context)
Truthy(ctx) == ctx.kind # "none" /\ ~(ctx.kind = "plain" /\ ctx.value = "False")

RECURSIVE UpdateRelation(_, _)
\* update_relation(relation) inside refresh_context_relations
UpdateRelation(st, r) ==
    IF st.error # "None" \/ r \in st.visited THEN st
    ELSE LET st1 == [st EXCEPT !.visited = @ \cup {r}]
             st2 == IF st.rels[r].context.kind = "relation"
                    THEN UpdateRelation(st1, st.rels[r].context.id)
                    ELSE st1
         IN  UpdateFromContext(st2, r)

RECURSIVE RefreshLoop(_, _, _)
\* for r in self.relations: if <test>: update_relation(r), from position k on;
\* the first loop tests r.context, the second relation_type == "CONTEXTUAL"
RefreshLoop(st, k, second) ==
    IF k > Len(st.rels) \/ st.error # "None" THEN st
    ELSE LET test == IF second THEN st.rels[k].relation_type = "CONTEXTUAL"
                     ELSE Truthy(st.rels[k].context)
         IN  RefreshLoop(IF test THEN UpdateRelation(st, k) ELSE st, k + 1, second)

\* Ontology.refresh_context_relations()
RefreshPass(rels) == RefreshLoop(RefreshLoop(Pass(rels), 1, FALSE), 1, TRUE)

\* The outcome of a pass as recorded in truthCall.
Outcome(op, r, st) ==
    [op |-> op, rel |-> r, updated |-> st.updated, called |-> st.called, error |-> st.error]

\* r.evaluate_truth(), called from outside
CallEvaluateTruth(r) ==
    /\ lastOp' = "evaluate_truth"
    /\ ret' = r
    /\ truthCall' = [op |-> "evaluate_truth", rel |-> r,
                     result |-> RelationEvaluateTruth(relations, r)]
    /\ UNCHANGED <<entities, parents, entRelations, relations, firstRet, predicates,
                   walkVars, tmpVars, ctxVars, extVars>>

\* r.set_truth_value(TruthValue(v)), called from outside
CallSetTruthValue(r, v) ==
    LET st == SetTruthValuePass(relations, r, v)
    IN  /\ relations' = st.rels
        /\ lastOp' = "set_truth_value"
        /\ ret' = r
        /\ truthCall' = Outcome("set_truth_value", r, st)
        /\ UNCHANGED <<entities, parents, entRelations, firstRet, predicates,
                       walkVars, tmpVars, ctxVars, extVars>>

\* r.update_from_context(), called from outside
CallUpdateFromContext(r) ==
    LET st == UpdateFromContext(Pass(relations), r)
    IN  /\ relations' = st.rels
        /\ lastOp' = "update_from_context"
        /\ ret' = r
        /\ truthCall' = Outcome("update_from_context", r, st)
        /\ UNCHANGED <<entities, parents, entRelations, firstRet, predicates,
                       walkVars, tmpVars, ctxVars, extVars>>

\* ontology.refresh_context_relations()
CallRefreshContextRelations ==
    LET st == RefreshPass(relations)
    IN  /\ relations' = st.rels
        /\ lastOp' = "refresh_context_relations"
        /\ ret' = 0
        /\ truthCall' = Outcome("refresh_context_relations", 0, st)
        /\ UNCHANGED <<entities, parents, entRelations, firstRet, predicates,
                       walkVars, tmpVars, ctxVars, extVars>>

\* The relations registered for truth maintenance have no roles.
NoRoles == <<>>

\* The arguments of add_relation: <<predicate, context, truth_value,
\* relation_type>>, with a context over each relation that already exists.
TruthRelationArgs ==
    {<<"IS", NoContext, "None", "GENERAL">>,
     <<"HAS", NoContext, "FALSE", "GENERAL">>,
     <<"IS", CallableContext("TRUE"), "None", "CONTEXTUAL">>,
     <<"IS", PlainContext("True"), "None", "CONTEXTUAL">>,
     <<"IS", PlainContext("False"), "None", "GENERAL">>}
    \cup {<<"IS", RelContext(i), "None", "CONTEXTUAL">> : i \in 1..Len(relations)}
    \cup {<<"HAS", RelContext(i), "TRUE", "GENERAL">> : i \in 1..Len(relations)}
    \cup {<<"IS", RelationContextOver(i), "None", "CONTEXTUAL">> : i \in 1..Len(relations)}

SetTruthArgs == {"TRUE", "FALSE"}

NextTruth ==
    \/ \E a \in TruthRelationArgs :
           /\ Len(relations) < MaxTruthRels
           /\ AddRelation(a[1], NoRoles, a[4], a[2], a[3])
    \/ \E r \in 1..Len(relations) : CallEvaluateTruth(r)
    \/ \E r \in 1..Len(relations), v \in SetTruthArgs : CallSetTruthValue(r, v)
    \/ \E r \in 1..Len(relations) : CallUpdateFromContext(r)
    \/ CallRefreshContextRelations

SpecTruth == Init /\ [][NextTruth]_vars

\* The truth state a plain boolean context wraps.
Wrapped(value) == IF value = "True" THEN "TRUE" ELSE "FALSE"

\* C16: evaluate_truth returns a truth state for every kind of context: with a
\* Relation context that relation's evaluate_truth(), with a RelationContext
\* the state the context evaluates to (here the state of the relation it
\* wraps), with a callback the callback's result, with a plain boolean the
\* wrapped truth state, and with no context the relation's stored state.
C16_EvaluateTruthByContext ==
    lastOp = "evaluate_truth" =>
        LET ctx == relations[truthCall.rel].context
        IN  /\ truthCall.result \in TruthStates
            /\ truthCall.result =
                 CASE ctx.kind = "relation" -> RelationEvaluateTruth(relations, ctx.id)
                   [] ctx.kind = "relation_context" -> RelationEvaluateTruth(relations, ctx.id)
                   [] ctx.kind = "callable" -> ctx.result
                   [] ctx.kind = "plain" -> Wrapped(ctx.value)
                   [] OTHER -> relations[truthCall.rel].truth_value

RECURSIVE ChainReaches(_, _, _)
\* d.context = ... = r through at most `fuel` Relation contexts
ChainReaches(d, r, fuel) ==
    /\ fuel > 0
    /\ relations[d].context.kind = "relation"
    /\ \/ relations[d].context.id = r
       \/ ChainReaches(relations[d].context.id, r, fuel - 1)

\* d depends on r through a chain of Relation contexts.
DependsOn(d, r) == ChainReaches(d, r, Len(relations))

\* C17: after set_truth_value(r, v) changed the state of a relation r without
\* context, every relation that depends on r through a chain of Relation
\* contexts has a cached truth_value equal to its evaluate_truth(), that is v.
C17_PushReachesDependents ==
    (/\ lastOp = "set_truth_value"
     /\ relations[truthCall.rel].context.kind = "none"
     /\ truthCall.updated # <<>>)
    => \A d \in 1..Len(relations) :
           DependsOn(d, truthCall.rel) =>
               /\ relations[d].truth_value = RelationEvaluateTruth(relations, d)
               /\ relations[d].truth_value = relations[truthCall.rel].truth_value

\* ---------------------------------------------------------------------------
\* Push propagation on an arbitrary context graph.  context and dependents are
\* plain attributes of Relation; nothing in Relation or Ontology checks that
\* the "context is a Relation" edges are acyclic.
\* ---------------------------------------------------------------------------

GraphRels == 1..MaxTruthRels

\* Relation i is over its own predicate, so no two relations are duplicates.
PredicateNames == <<"IS", "HAS", "LIKES", "EATS", "KNOWS">>

\* ctxOf[i] = 0: relation i has no context; otherwise its context is
\* relation ctxOf[i], which holds i in its dependents.
GraphRelations(ctxOf, tvOf) ==
    [i \in GraphRels |->
        [NewRelation(PredicateNames[i], NoRoles, "GENERAL",
                     IF ctxOf[i] = 0 THEN NoContext ELSE RelContext(ctxOf[i]),
                     tvOf[i])
         EXCEPT !.dependents = {j \in GraphRels : ctxOf[j] = i}]]

GraphInit ==
    /\ entities = {}
    /\ parents = [e \in EntityIds |-> {}]
    /\ entRelations = [e \in EntityIds |-> <<>>]
    /\ \E ctxOf \in [GraphRels -> 0..MaxTruthRels], tvOf \in [GraphRels -> {"None", "TRUE"}] :
           relations = GraphRelations(ctxOf, tvOf)
    /\ lastOp = "none"
    /\ ret = 0
    /\ firstRet = {}
    /\ WalkIdle
    /\ TmpIdle
    /\ CtxIdle
    /\ EngIdle
    /\ ExtIdle

NextGraph ==
    \/ \E r \in GraphRels : CallEvaluateTruth(r)
    \/ \E r \in GraphRels, v \in SetTruthArgs : CallSetTruthValue(r, v)
    \/ \E r \in GraphRels : CallUpdateFromContext(r)

SpecGraph == GraphInit /\ [][NextGraph]_vars

\* No relation occurs twice in the sequence.
NoRepeat(seq) == \A i, j \in 1..Len(seq) : seq[i] = seq[j] => i = j

FirstIndex(seq, r) ==
    IF \E i \in 1..Len(seq) : seq[i] = r
    THEN CHOOSE i \in 1..Len(seq) : seq[i] = r /\ \A j \in 1..(i - 1) : seq[j] # r
    ELSE 0

\* C19: on an acyclic context graph one call of refresh_context_relations
\* terminates, updates a relation's context relation before the relation, and
\* reaches a fixed point: every relation with a context has a cached
\* truth_value equal to its evaluate_truth(), and a second call changes nothing.
C19_RefreshFixedPoint ==
    lastOp = "refresh_context_relations" =>
        /\ truthCall.error = "None"
        /\ \A r \in 1..Len(relations) :
               relations[r].context.kind = "relation" /\ FirstIndex(truthCall.called, r) # 0
                   => /\ FirstIndex(truthCall.called, relations[r].context.id) # 0
                      /\ FirstIndex(truthCall.called, relations[r].context.id)
                             < FirstIndex(truthCall.called, r)
        /\ \A r \in 1..Len(relations) :
               relations[r].context.kind # "none"
                   => relations[r].truth_value = RelationEvaluateTruth(relations, r)
        /\ RefreshPass(relations).rels = relations

\* ---------------------------------------------------------------------------
\* Ontology operations that raise (src/core/ontology.py)
\* ---------------------------------------------------------------------------

MaxInverses == 2   \* inverse predicates registered for one predicate

\* A role value that is not an Entity (None).
NotAnEntity == 0

\* ontology.predicates is a dict in insertion order: a sequence of
\* [name, inverses], inverses being the names in predicate.inverses.
PredicateIndex(ps, name) ==
    IF \E k \in 1..Len(ps) : ps[k].name = name
    THEN CHOOSE k \in 1..Len(ps) : ps[k].name = name
    ELSE 0

\* Predicate(name)
NewPredicate(name) == [name |-> Upper(name), inverses |-> <<>>]

\* self.predicates[p.name] = p
RegisterPredicate(ps, p) ==
    IF PredicateIndex(ps, p.name) # 0
    THEN [ps EXCEPT ![PredicateIndex(ps, p.name)] = p]
    ELSE Append(ps, p)

\* ontology.add_predicate(name)
AddPredicate(name) ==
    /\ lastOp' = "add_predicate"
    /\ IF PredicateIndex(predicates, Upper(name)) # 0
       THEN /\ ret' = 0
            /\ truthCall' = [op |-> "add_predicate", name |-> Upper(name), error |-> "ValueError"]
            /\ UNCHANGED predicates
       ELSE /\ predicates' = RegisterPredicate(predicates, NewPredicate(name))
            /\ ret' = Len(predicates) + 1
            /\ truthCall' = [op |-> "add_predicate", name |-> Upper(name), error |-> "None"]
    /\ UNCHANGED <<entities, parents, entRelations, relations, firstRet,
                   walkVars, tmpVars, ctxVars, extVars>>

\* ontology.add_inverse_predicate(original, inverse_name, role_mapping) for a
\* registered predicate `original`.  _create_inverse_relation, called for each
\* relation over the original predicate, is defined nowhere.
AddInversePredicate(original, inverse_name) ==
    LET k == PredicateIndex(predicates, original)
        inverse_pred == NewPredicate(inverse_name)
        registered == RegisterPredicate(
                          [predicates EXCEPT ![k].inverses = Append(@, inverse_pred.name)],
                          inverse_pred)
        raises == \E i \in 1..Len(relations) : relations[i].predicate = original
    IN  /\ k # 0
        /\ inverse_pred.name # original
        /\ predicates' = registered
        /\ lastOp' = "add_inverse_predicate"
        /\ ret' = IF raises THEN 0 ELSE PredicateIndex(registered, inverse_pred.name)
        /\ truthCall' = [op |-> "add_inverse_predicate", name |-> inverse_pred.name,
                         error |-> IF raises THEN "AttributeError" ELSE "None"]
        /\ UNCHANGED <<entities, parents, entRelations, relations, firstRet,
                       walkVars, tmpVars, ctxVars, extVars>>

RECURSIVE EntityPrefix(_)
\* The role values the attach loop reaches before a value that is not an
\* Entity makes e.relations raise AttributeError.
EntityPrefix(vals) ==
    IF vals = <<>> \/ Head(vals) = NotAnEntity THEN <<>>
    ELSE <<Head(vals)>> \o EntityPrefix(Tail(vals))

\* ontology.add_relation with a roles dict that holds a value that is not an
\* Entity: the relation is created, registered with its context and appended
\* before the attach loop raises.
AddRelationRaising(pred, roles, rtype, ctx, tv) ==
    LET existing == FindExisting(pred, roles, ctx)
        r == Len(relations) + 1
    IN IF existing # 0
       THEN /\ lastOp' = "add_relation"
            /\ ret' = existing
            /\ truthCall' = [op |-> "add_relation", error |-> "None"]
            /\ UNCHANGED <<entities, parents, entRelations, relations, firstRet,
                           predicates, walkVars, tmpVars, ctxVars, extVars>>
       ELSE /\ relations' = Append(RegisterDependent(relations, ctx, r),
                                   NewRelation(pred, roles, rtype, ctx, tv))
            /\ entRelations' = AttachToRoles(entRelations, EntityPrefix(DictValues(roles)), r)
            /\ lastOp' = "add_relation"
            /\ ret' = 0
            /\ truthCall' = [op |-> "add_relation", error |-> "AttributeError"]
            /\ UNCHANGED <<entities, parents, firstRet, predicates,
                           walkVars, tmpVars, ctxVars, extVars>>

\* ontology.add_temporal_relation with such a roles dict: the relation is
\* appended before the attach loop raises; the context's dependents are only
\* registered after the loop.
AddTemporalRelationRaising(pred, roles, rtype, ctx, dt) ==
    LET existing == FindExistingTemporal(pred, roles, rtype, ctx)
        r == Len(relations) + 1
    IN IF existing # 0
       THEN /\ lastOp' = "add_temporal_relation"
            /\ ret' = existing
            /\ truthCall' = [op |-> "add_temporal_relation", error |-> "None"]
            /\ UNCHANGED <<entities, parents, entRelations, relations, firstRet,
                           predicates, walkVars, tmpVars, ctxVars, extVars>>
       ELSE /\ relations' = Append(relations, NewTemporalRelation(pred, roles, rtype, ctx, dt))
            /\ entRelations' = AttachToRoles(entRelations, EntityPrefix(DictValues(roles)), r)
            /\ lastOp' = "add_temporal_relation"
            /\ ret' = 0
            /\ truthCall' = [op |-> "add_temporal_relation", error |-> "AttributeError"]
            /\ UNCHANGED <<entities, parents, firstRet, predicates,
                           walkVars, tmpVars, ctxVars, extVars>>

HasNonEntity(roles) == \E i \in 1..Len(roles) : roles[i][2] = NotAnEntity

\* ontology.add_relation(...), whatever the role values are
CallAddRelation(pred, roles, rtype, ctx, tv) ==
    IF HasNonEntity(roles)
    THEN AddRelationRaising(pred, roles, rtype, ctx, tv)
    ELSE AddRelation(pred, roles, rtype, ctx, tv)

\* ontology.add_temporal_relation(...), whatever the role values are
CallAddTemporalRelation(pred, roles, rtype, ctx, dt) ==
    IF HasNonEntity(roles)
    THEN AddTemporalRelationRaising(pred, roles, rtype, ctx, dt)
    ELSE AddTemporalRelation(pred, roles, rtype, ctx, dt)

\* Roles dicts of the failing calls: a non-entity after an entity, and alone.
SubjectOnly == <<<<"subject", 1>>>>
ObjectMissing == <<<<"subject", 1>>, <<"object", NotAnEntity>>>>
SubjectMissing == <<<<"subject", NotAnEntity>>>>

FailRoles == {SO, SubjectOnly, ObjectMissing, SubjectMissing}

EntitiesOf(roles) == {roles[i][2] : i \in 1..Len(roles)} \ {NotAnEntity}

NextFail ==
    \/ DedupAddEntity
    \/ \E name \in {"HAS"} : AddPredicate(name)
    \/ \E inverse_name \in {"owned_by", "OWNED_BY"} :
           /\ PredicateIndex(predicates, "HAS") # 0
           /\ Len(predicates[PredicateIndex(predicates, "HAS")].inverses) < MaxInverses
           /\ AddInversePredicate("HAS", inverse_name)
    \/ \E roles \in FailRoles, ctx \in DedupContexts :
           /\ PredicateIndex(predicates, "HAS") # 0
           /\ EntitiesOf(roles) \subseteq entities
           /\ CanAddRelation(FindExisting("HAS", roles, ctx))
           /\ CallAddRelation("HAS", roles, "GENERAL", ctx, "None")
    \/ \E roles \in FailRoles, ctx \in DedupContexts :
           /\ PredicateIndex(predicates, "HAS") # 0
           /\ EntitiesOf(roles) \subseteq entities
           /\ CanAddRelation(FindExistingTemporal("HAS", roles, "GENERAL", ctx))
           /\ CallAddTemporalRelation("HAS", roles, "GENERAL", ctx, "None")

SpecFail == Init /\ [][NextFail]_vars

\* C20: an Ontology operation that raises leaves the Ontology in its prior
\* state: when add_relation, add_temporal_relation or add_inverse_predicate
\* fails, ontology.relations (with every dependents set), ontology.predicates
\* (with every predicate's inverses) and every entity's relations list are
\* unchanged.  A call that raises returns nothing (ret' = 0).
C20_FailureLeavesPriorState ==
    [][(/\ lastOp' \in {"add_relation", "add_temporal_relation", "add_inverse_predicate"}
        /\ ret' = 0)
       => UNCHANGED <<relations, predicates, entRelations, extVars>>]_vars

\* ---------------------------------------------------------------------------
\* The predicate table under add_predicate and add_inverse_predicate
\* ---------------------------------------------------------------------------

PredicateArgs == {"is", "IS", "has"}
InverseArgs == {"has", "owned_by"}

NextPred ==
    \/ \E name \in PredicateArgs : AddPredicate(name)
    \/ \E original \in {"IS", "HAS"}, inverse_name \in InverseArgs :
           /\ PredicateIndex(predicates, original) # 0
           /\ Len(predicates[PredicateIndex(predicates, original)].inverses) < MaxInverses
           /\ AddInversePredicate(original, inverse_name)
    \/ /\ PredicateIndex(predicates, "IS") # 0
       /\ CanAddRelation(FindExisting("IS", NoRoles, NoContext))
       /\ AddRelation("IS", NoRoles, "GENERAL", NoContext, "None")

SpecPred == Init /\ [][NextPred]_vars

\* C21: registering a predicate, by add_predicate or add_inverse_predicate,
\* under a name (compared in upper case) that is already a key of the
\* predicate table fails with a duplicate error and leaves the table
\* unchanged, so a registered predicate is never replaced.
C21_DuplicatePredicateRejected ==
    [][(/\ lastOp' \in {"add_predicate", "add_inverse_predicate"}
        /\ PredicateIndex(predicates, truthCall'.name) # 0)
       => /\ truthCall'.error = "ValueError"
          /\ UNCHANGED predicates]_vars

\* ---------------------------------------------------------------------------
\* The entity table: add_entity, add_alias, resolve_entity
\* (src/core/ontology.py, src/core/entity.py)
\* ---------------------------------------------------------------------------

\* e.id in self.entities, with a mutant that never finds the id
IdRegisteredNever(id) == FALSE

IdRegistered(id) == id \in entities

\* [a.upper() for a in (aliases or [])]: a string is iterated by character, so
\* an `aliases` argument is a sequence of one-character strings, or "None".
UpperAll(aliases) ==
    IF aliases = "None" THEN <<>>
    ELSE [i \in 1..Len(aliases) |-> Upper(aliases[i])]

\* Entity.__init__(name, word_type, parents, aliases, description)
NewEntity(name, ps, aliases, description) ==
    [name |-> Upper(name), parents |-> ps, aliases |-> UpperAll(aliases),
     description |-> description]

\* Entity(name, word_type, parents, description) in add_entity: the fourth
\* positional parameter of Entity.__init__ is aliases, and description keeps
\* its default.
EntityOfAddEntity(name, ps, description) == NewEntity(name, ps, description, "None")

\* ontology.add_entity(name, word_type, parents, description) when uuid4 gives
\* the id `id`.
CallAddEntity(id, name, ps, description) ==
    LET e == EntityOfAddEntity(name, ps, description)
    IN  /\ IF IdRegistered(id)
           THEN /\ entCall' = [op |-> "add_entity", id |-> id, error |-> "ValueError"]
                /\ UNCHANGED <<entities, parents, entNames, entAliases>>
           ELSE /\ entities' = entities \cup {id}
                /\ parents' = [parents EXCEPT ![id] = e.parents]
                /\ entNames' = [entNames EXCEPT ![id] = e.name]
                /\ entAliases' = [entAliases EXCEPT ![id] = e.aliases]
                /\ entCall' = [op |-> "add_entity", id |-> id, error |-> "None",
                               parents |-> ps, description |-> description,
                               returned |-> e]
        /\ UNCHANGED <<entRelations, relations, lastOp, ret, firstRet, alias_map,
                       walkVars, tmpVars, ctxVars, engVars, thrVars, tvVars, serVars, qryVars>>

\* Position of the alias among the keys of alias_map, 0 if absent.
AliasIndex(am, alias) ==
    IF \E k \in 1..Len(am) : am[k].alias = alias
    THEN CHOOSE k \in 1..Len(am) : am[k].alias = alias
    ELSE 0

\* ontology.add_alias(alias_name, target_entity)
AddAlias(alias_name, target) ==
    LET alias == Upper(alias_name)
        am1 == IF AliasIndex(alias_map, alias) = 0
               THEN Append(alias_map, [alias |-> alias, targets |-> <<>>])
               ELSE alias_map
        k == AliasIndex(am1, alias)
    IN  /\ alias_map' = IF InList(target, am1[k].targets) THEN am1
                        ELSE [am1 EXCEPT ![k].targets = Append(@, target)]
        /\ entAliases' = IF InList(alias, entAliases[target]) THEN entAliases
                         ELSE [entAliases EXCEPT ![target] = Append(@, alias)]
        /\ entCall' = [op |-> "add_alias", name |-> alias, id |-> target]
        /\ UNCHANGED <<ontVars, entNames, walkVars, tmpVars, ctxVars, engVars,
                       thrVars, tvVars, serVars, qryVars>>

\* Entity.all_names()
AllNames(e) == {entNames[e]} \cup {entAliases[e][i] : i \in 1..Len(entAliases[e])}

\* ontology.resolve_entity(name); the list is built from a set, so it holds
\* no entity twice and its order is not determined.
ResolveEntity(name) ==
    LET query == Upper(name)
        matches == {e \in entities : query \in AllNames(e)}
        k == AliasIndex(alias_map, query)
        alias_matches == IF k = 0 THEN {}
                         ELSE {alias_map[k].targets[i] : i \in 1..Len(alias_map[k].targets)}
    IN  /\ entCall' = [op |-> "resolve_entity", name |-> query,
                       result |-> matches \cup alias_matches]
        /\ UNCHANGED <<ontVars, entNames, entAliases, alias_map,
                       walkVars, tmpVars, ctxVars, engVars, thrVars, tvVars, serVars, qryVars>>

NameArgs == {"dog", "DOG", "d"}
DescriptionArgs == {"None", <<"d">>}
AliasArgs == {"pet", "Pet"}
AliasTargets == {1, 2}

NextReg ==
    \/ \E id \in EntityIds, name \in NameArgs, description \in DescriptionArgs :
           CallAddEntity(id, name, {}, description)
    \/ \E alias_name \in AliasArgs, target \in AliasTargets \cap entities :
           AddAlias(alias_name, target)
    \/ \E name \in {"d", "pet", "dog"} : ResolveEntity(name)

SpecReg == Init /\ [][NextReg]_vars

\* The entry of the entity table under id e.
EntityEntry(e) == <<parents[e], entNames[e], entAliases[e], entRelations[e]>>

\* C22: add_entity fails with a duplicate error, before any mutation of the
\* entity table, whenever the id of the new entity is already registered; a
\* successful call adds exactly one new key and replaces no existing entry.
C22_DuplicateEntityRejected ==
    [][entCall'.op = "add_entity" =>
          IF entCall'.id \in entities
          THEN /\ entCall'.error = "ValueError"
               /\ entities' = entities
               /\ \A e \in entities : EntityEntry(e)' = EntityEntry(e)
          ELSE /\ entCall'.error = "None"
               /\ entities' = entities \cup {entCall'.id}
               /\ \A e \in entities : EntityEntry(e)' = EntityEntry(e)]_vars

\* add_entity was called with an id that is already registered, for an entity
\* of another name.
C22_Witness ==
    /\ entCall.op = "add_entity"
    /\ entCall.error = "ValueError"
    /\ entCall.id \in entities
    /\ \E e \in entities : e # entCall.id /\ entNames[e] # entNames[entCall.id]

\* C30: resolve_entity(n) returns exactly the entities whose canonical name is
\* n in upper case or for which add_alias was called with an alias equal to n
\* in upper case (alias_map holds exactly the add_alias calls).
C30_ResolveEntityExact ==
    entCall.op = "resolve_entity" =>
        entCall.result =
            {e \in entities : entNames[e] = entCall.name}
            \cup {e \in EntityIds :
                     \E k \in 1..Len(alias_map) :
                         /\ alias_map[k].alias = entCall.name
                         /\ InList(e, alias_map[k].targets)}

\* ---------------------------------------------------------------------------
\* Entity.all_relations (src/core/entity.py)
\* ---------------------------------------------------------------------------

\* e.all_relations(): the comprehension calls r.is_active() on the first
\* attached relation; neither Relation nor TemporalRelation has that method.
CallAllRelations(e) ==
    /\ entCall' = IF entRelations[e] = <<>>
                  THEN [op |-> "all_relations", id |-> e, error |-> "None", result |-> <<>>]
                  ELSE [op |-> "all_relations", id |-> e, error |-> "AttributeError"]
    /\ lastOp' = "all_relations"
    /\ ret' = 0
    /\ UNCHANGED <<entities, parents, entRelations, relations, firstRet,
                   entNames, entAliases, alias_map,
                   walkVars, tmpVars, ctxVars, engVars, thrVars, tvVars, serVars, qryVars>>

NextAll ==
    \/ DedupAddEntity
    \/ DedupAddRelation
    \/ DedupAddTemporalRelation
    \/ \E e \in entities : CallAllRelations(e)

SpecAll == Init /\ [][NextAll]_vars

RECURSIVE FirstOccurrences(_)
\* The sequence without the repetitions of its elements.
FirstOccurrences(seq) ==
    IF seq = <<>> THEN <<>>
    ELSE LET front == FirstOccurrences(SubSeq(seq, 1, Len(seq) - 1))
             last == seq[Len(seq)]
         IN  IF InList(last, front) THEN front ELSE Append(front, last)

\* C23: for an entity with attached relations all_relations returns, without
\* raising, the attached relations (all are active: nothing deactivates a
\* relation) with duplicates removed, in the order of first attachment.
C23_AllRelations ==
    (lastOp = "all_relations" /\ entRelations[entCall.id] # <<>>) =>
        /\ entCall.error = "None"
        /\ entCall.result = FirstOccurrences(entRelations[entCall.id])

\* ---------------------------------------------------------------------------
\* Temporary relations as the tests use them (src/test/core_test_misty.py,
\* src/test/core_test_john.py) against Ontology.add_relation and Relation
\* ---------------------------------------------------------------------------

\* onto.add_relation(predicate, roles=..., relation_type="TEMPORARY",
\* duration=timedelta(...)): add_relation has no parameter `duration`, so the
\* call raises TypeError before its body runs.
CallAddRelationWithDuration(pred, roles, rtype, ctx) ==
    /\ lastOp' = "add_relation"
    /\ ret' = 0
    /\ truthCall' = [op |-> "add_relation", duration |-> TRUE, error |-> "TypeError"]
    /\ UNCHANGED <<entities, parents, entRelations, relations, firstRet, predicates,
                   walkVars, tmpVars, ctxVars, extVars>>

\* r.activate(): Relation has no such method (nor an attribute `active`).
CallActivate(r) ==
    /\ lastOp' = "activate"
    /\ ret' = r
    /\ truthCall' = [op |-> "activate", rel |-> r, error |-> "AttributeError"]
    /\ UNCHANGED <<entities, parents, entRelations, relations, firstRet, predicates,
                   walkVars, tmpVars, ctxVars, extVars>>

\* onto.expire_temporary_relations(): Ontology has no such method.
CallExpireTemporaryRelations ==
    /\ lastOp' = "expire_temporary_relations"
    /\ ret' = 0
    /\ truthCall' = [op |-> "expire_temporary_relations", error |-> "AttributeError"]
    /\ UNCHANGED <<entities, parents, entRelations, relations, firstRet, predicates,
                   walkVars, tmpVars, ctxVars, extVars>>

NextTemporary ==
    \/ DedupAddEntity
    \/ DedupAddRelation
    \/ \E ctx \in DedupContexts :
           /\ UsesOnly(SO, entities)
           /\ CallAddRelationWithDuration("IS", SO, "TEMPORARY", ctx)
    \/ \E r \in 1..Len(relations) : CallActivate(r)
    \/ CallExpireTemporaryRelations

SpecTemporary == Init /\ [][NextTemporary]_vars

\* C24: a relation created as temporary with a duration is registered and
\* active, activate() makes a relation and its dependents active again, and
\* expire_temporary_relations removes the expired relations: each of these
\* calls completes, and the creating call returns a registered relation.
C24_TemporaryLifecycle ==
    /\ lastOp = "add_relation" => ret \in 1..Len(relations)
    /\ lastOp \in {"activate", "expire_temporary_relations"} => truthCall.error = "None"

\* ---------------------------------------------------------------------------
\* Several threads calling add_relation, add_temporal_relation and
\* set_truth_value, every call made while holding one lock on the Ontology.
\* The calls run statement by statement: the de-duplication loop, the creation
\* and registration of the relation, one append per role entity, one step of
\* the propagation loop per registered entity.
\* ---------------------------------------------------------------------------

LockEntities == {1, 2, 3}

\* Entities 1, 2 and 3 are registered, 3 is a child of 1, and HAS(subject: 1)
\* is registered, attached to 1 and propagated to 3.
LockInit ==
    /\ entities = LockEntities
    /\ parents = [e \in EntityIds |-> IF e = 3 THEN {1} ELSE {}]
    /\ relations = <<NewRelation("HAS", SubjectOnly, "GENERAL", NoContext, "None")>>
    /\ entRelations = [e \in EntityIds |-> IF e \in {1, 3} THEN <<1>> ELSE <<>>]
    /\ lastOp = "add_relation"
    /\ ret = 1
    /\ firstRet = {[key |-> CallKey("HAS", SubjectOnly, NoContext), ret |-> 1]}
    /\ WalkIdle
    /\ TmpIdle
    /\ CtxIdle
    /\ EngIdle
    /\ ExtIdle

ThreadCalls ==
    {[op |-> "add_relation", pred |-> "IS", roles |-> SO, rtype |-> "GENERAL",
      ctx |-> NoContext, tv |-> "None"],
     [op |-> "add_relation", pred |-> "IS", roles |-> SO, rtype |-> "CONTEXTUAL",
      ctx |-> RelContext(1), tv |-> "None"],
     [op |-> "add_temporal_relation", pred |-> "IS", roles |-> SO, rtype |-> "GENERAL",
      ctx |-> RelContext(1), tv |-> "None"],
     [op |-> "set_truth_value", rel |-> 1, tv |-> "TRUE"],
     [op |-> "read"]}

ThreadFrame == <<entities, parents, lastOp, ret, firstRet,
                 walkVars, tmpVars, ctxVars, engVars, regVars, tvVars, serVars, qryVars>>

\* Thread t starts a call and waits for the lock.
Begin(t, call) ==
    /\ pc[t] = "idle"
    /\ pc' = [pc EXCEPT ![t] = "acquire"]
    /\ thrCall' = [thrCall EXCEPT ![t] = call]
    /\ UNCHANGED <<relations, entRelations, lock, thrLocal, ThreadFrame>>

\* with lock: ... (the caller's lock is taken when it is free)
Acquire(t) ==
    /\ pc[t] = "acquire"
    /\ lock = 0
    /\ lock' = t
    /\ pc' = [pc EXCEPT ![t] = CASE thrCall[t].op = "set_truth_value" -> "set"
                                 [] thrCall[t].op = "read" -> "observe"
                                 [] OTHER -> "dedup"]
    /\ UNCHANGED <<relations, entRelations, thrCall, thrLocal, ThreadFrame>>

\* for existing in self.relations: ... return existing
DedupStep(t) ==
    LET c == thrCall[t]
        existing == IF c.op = "add_relation"
                    THEN FindExisting(c.pred, c.roles, c.ctx)
                    ELSE FindExistingTemporal(c.pred, c.roles, c.rtype, c.ctx)
    IN  /\ pc[t] = "dedup"
        /\ IF existing # 0
           THEN /\ thrLocal' = [thrLocal EXCEPT ![t].ret = existing]
                /\ pc' = [pc EXCEPT ![t] = "release"]
           ELSE /\ pc' = [pc EXCEPT ![t] = "create"]
                /\ UNCHANGED thrLocal
        /\ UNCHANGED <<relations, entRelations, lock, thrCall, ThreadFrame>>

\* r = Relation(...); context.dependents.add(r); self.relations.append(r)
\* r = TemporalRelation(...); self.relations.append(r)
CreateStep(t) ==
    LET c == thrCall[t]
        r == Len(relations) + 1
    IN  /\ pc[t] = "create"
        /\ relations' = IF c.op = "add_relation"
                        THEN Append(RegisterDependent(relations, c.ctx, r),
                                    NewRelation(c.pred, c.roles, c.rtype, c.ctx, c.tv))
                        ELSE Append(relations,
                                    NewTemporalRelation(c.pred, c.roles, c.rtype, c.ctx, c.tv))
        /\ thrLocal' = [thrLocal EXCEPT ![t].r = r, ![t].i = 1]
        /\ pc' = [pc EXCEPT ![t] = "attach"]
        /\ UNCHANGED <<entRelations, lock, thrCall, ThreadFrame>>

\* for e in roles.values(): e.relations.append(r), one entity per step
AttachStep(t) ==
    LET c == thrCall[t]
        i == thrLocal[t].i
    IN  /\ pc[t] = "attach"
        /\ IF i <= Len(c.roles)
           THEN /\ entRelations' = [entRelations EXCEPT ![c.roles[i][2]] = Append(@, thrLocal[t].r)]
                /\ thrLocal' = [thrLocal EXCEPT ![t].i = i + 1]
                /\ UNCHANGED pc
           ELSE /\ pc' = [pc EXCEPT ![t] = "propagate"]
                /\ thrLocal' = [thrLocal EXCEPT ![t].i = 1]
                /\ UNCHANGED entRelations
        /\ UNCHANGED <<relations, lock, thrCall, ThreadFrame>>

\* The i-th entity of self.entities.values(): ids are given in creation order.
EntityAt(i) == i

\* propagate_relation_to_descendants: one entity of the loop per step
PropagateStep(t) ==
    LET c == thrCall[t]
        i == thrLocal[t].i
        r == thrLocal[t].r
        e == EntityAt(i)
        involved == {c.roles[k][2] : k \in 1..Len(c.roles)}
    IN  /\ pc[t] = "propagate"
        /\ IF i <= Cardinality(entities)
           THEN /\ entRelations' =
                       IF /\ \E a \in involved : a \in GetAllAncestors(parents, e)
                          /\ ~InList(r, entRelations[e])
                       THEN [entRelations EXCEPT ![e] = Append(@, r)]
                       ELSE entRelations
                /\ thrLocal' = [thrLocal EXCEPT ![t].i = i + 1]
                /\ UNCHANGED pc
           ELSE /\ pc' = [pc EXCEPT ![t] = IF c.op = "add_relation" THEN "release" ELSE "register"]
                /\ thrLocal' = [thrLocal EXCEPT ![t].ret =
                                    IF c.op = "add_relation" THEN r ELSE @]
                /\ UNCHANGED entRelations
        /\ UNCHANGED <<relations, lock, thrCall, ThreadFrame>>

\* add_temporal_relation: if isinstance(context, Relation): context.dependents.add(r)
RegisterStep(t) ==
    /\ pc[t] = "register"
    /\ relations' = RegisterDependent(relations, thrCall[t].ctx, thrLocal[t].r)
    /\ thrLocal' = [thrLocal EXCEPT ![t].ret = thrLocal[t].r]
    /\ pc' = [pc EXCEPT ![t] = "release"]
    /\ UNCHANGED <<entRelations, lock, thrCall, ThreadFrame>>

\* r.set_truth_value(TruthValue(v)) with its push to the dependents
SetStep(t) ==
    /\ pc[t] = "set"
    /\ relations' = SetTruthValuePass(relations, thrCall[t].rel, thrCall[t].tv).rels
    /\ pc' = [pc EXCEPT ![t] = "release"]
    /\ UNCHANGED <<entRelations, lock, thrCall, thrLocal, ThreadFrame>>

\* A reader looks at the Ontology while it holds the lock.
ObserveStep(t) ==
    /\ pc[t] = "observe"
    /\ pc' = [pc EXCEPT ![t] = "release"]
    /\ UNCHANGED <<relations, entRelations, lock, thrCall, thrLocal, ThreadFrame>>

\* The lock is given back when the call has returned.
Release(t) ==
    /\ pc[t] = "release"
    /\ lock' = 0
    /\ pc' = [pc EXCEPT ![t] = "done"]
    /\ UNCHANGED <<relations, entRelations, thrCall, thrLocal, ThreadFrame>>

NextLock ==
    \E t \in Threads :
        \/ \E call \in ThreadCalls : Begin(t, call)
        \/ Acquire(t)
        \/ DedupStep(t)
        \/ CreateStep(t)
        \/ AttachStep(t)
        \/ PropagateStep(t)
        \/ RegisterStep(t)
        \/ SetStep(t)
        \/ ObserveStep(t)
        \/ Release(t)

SpecLock == LockInit /\ [][NextLock]_vars

\* What one call, run alone from the relations `rels` and the relation lists
\* `er`, leaves behind and returns.
SeqFind(rels, c) ==
    LET hits == {k \in 1..Len(rels) :
                    /\ rels[k].predicate = c.pred
                    /\ DictEq(rels[k].roles, c.roles)
                    /\ rels[k].context = c.ctx
                    /\ c.op = "add_temporal_relation" =>
                           rels[k].temporal /\ rels[k].relation_type = Upper(c.rtype)}
    IN  IF hits = {} THEN 0 ELSE CHOOSE k \in hits : \A j \in hits : k <= j

SeqCall(st, c) ==
    CASE c.op = "read" -> [st EXCEPT !.ret = 0]
      [] c.op = "set_truth_value" ->
             [st EXCEPT !.rels = SetTruthValuePass(st.rels, c.rel, c.tv).rels, !.ret = 0]
      [] OTHER ->
             LET existing == SeqFind(st.rels, c)
                 r == Len(st.rels) + 1
                 new == IF c.op = "add_relation"
                        THEN NewRelation(c.pred, c.roles, c.rtype, c.ctx, c.tv)
                        ELSE NewTemporalRelation(c.pred, c.roles, c.rtype, c.ctx, c.tv)
             IN  IF existing # 0 THEN [st EXCEPT !.ret = existing]
                 ELSE [rels |-> Append(RegisterDependent(st.rels, c.ctx, r), new),
                       er |-> PropagateToDescendants(
                                  AttachToRoles(st.er, DictValues(c.roles), r),
                                  entities, parents, c.roles, r),
                       ret |-> r]

RECURSIVE SeqRun(_, _, _)
\* The calls of the threads run one after the other in the given order:
\* the final relations and relation lists, and what each thread's call returned.
SeqRun(st, rets, order) ==
    IF order = <<>> THEN [rels |-> st.rels, er |-> st.er, rets |-> rets]
    ELSE LET t == Head(order)
             after == SeqCall(st, thrCall[t])
         IN  SeqRun(after, [rets EXCEPT ![t] = after.ret], Tail(order))

Orders == {o \in [1..NumThreads -> Threads] : \A i, j \in 1..NumThreads : o[i] = o[j] => i = j}

\* The Ontology the threads started from.
LockStart ==
    [rels |-> <<NewRelation("HAS", SubjectOnly, "GENERAL", NoContext, "None")>>,
     er |-> [e \in EntityIds |-> IF e \in {1, 3} THEN <<1>> ELSE <<>>],
     ret |-> 0]

AllDone == \A t \in Threads : pc[t] = "done"

\* Every relation is in the list of each of its role entities and of each
\* registered descendant of one.
FullyAttached ==
    \A r \in 1..Len(relations) : \A e \in entities :
        (\E k \in 1..Len(relations[r].roles) :
             LET a == relations[r].roles[k][2]
             IN  a = e \/ a \in GetAllAncestors(parents, e))
        => InList(r, entRelations[e])

SameKey(c1, c2) == c1.pred = c2.pred /\ DictEq(c1.roles, c2.roles) /\ c1.ctx = c2.ctx

\* C25: with every call made under the one lock, the threads end in a state
\* that some sequential order of their calls produces, with the same returned
\* relations; two add_relation calls with identical (predicate, roles, context)
\* return the same relation and register exactly one between them (none when
\* an add_temporal_relation call registered that key before both); and when
\* the lock is free or held by a reader, no relation is attached to only some
\* of its role entities and descendants.
C25_LockSerializes ==
    /\ AllDone =>
           \E o \in Orders :
               LET seq == SeqRun(LockStart, [t \in Threads |-> 0], o)
               IN  /\ relations = seq.rels
                   /\ entRelations = seq.er
                   /\ \A t \in Threads : thrLocal[t].ret = seq.rets[t]
    /\ \A t1, t2 \in Threads :
           (/\ t1 # t2
            /\ pc[t1] = "done" /\ pc[t2] = "done"
            /\ thrCall[t1].op = "add_relation" /\ thrCall[t2].op = "add_relation"
            /\ SameKey(thrCall[t1], thrCall[t2]))
           => /\ thrLocal[t1].ret = thrLocal[t2].ret
              /\ thrLocal[t1].ret \in 1..Len(relations)
              /\ Cardinality({k \in 1..Len(relations) :
                                 /\ ~relations[k].temporal
                                 /\ relations[k].predicate = thrCall[t1].pred
                                 /\ DictEq(relations[k].roles, thrCall[t1].roles)
                                 /\ relations[k].context = thrCall[t1].ctx})
                     = IF relations[thrLocal[t1].ret].temporal THEN 0 ELSE 1
    /\ (lock = 0 \/ (lock # 0 /\ pc[lock] = "observe")) => FullyAttached

\* Two threads made the same add_relation call, one waited for the lock while
\* the other was inside its call, and both have returned.
C25_Witness ==
    /\ AllDone
    /\ \E t1, t2 \in Threads :
           /\ t1 # t2
           /\ thrCall[t1].op = "add_relation" /\ thrCall[t2] = thrCall[t1]
           /\ thrLocal[t1].r # 0
           /\ thrLocal[t2].r = 0
           /\ thrLocal[t2].ret = thrLocal[t1].r

\* A reader holds the lock after a relation was added by another thread.
C25_WitnessReader ==
    \E t \in Threads :
        /\ lock = t
        /\ pc[t] = "observe"
        /\ \E u \in Threads : pc[u] = "done" /\ thrLocal[u].r # 0

\* ------------------------------------------------------------------------
\* TruthValue objects: evaluate and collapse_probability (truth.py).
\* tvObjs holds the objects made so far, each with its value and probability
\* (modality is never read by the two methods).

\* The probabilities given to the constructor: None, 0.7 and 1.0.
Probabilities == {"None", SomeProbability, "1.0"}

\* `random.random() <= probability`: random() lies in [0, 1), so with
\* probability 1.0 the comparison is always true; with 0.7 both outcomes occur.
Draw(probability) == IF probability = "1.0" THEN {TRUE} ELSE {TRUE, FALSE}

\* `TruthState.TRUE if random.random() <= self.probability else TruthState.FALSE`
Sampled(probability) == {IF b THEN "TRUE" ELSE "FALSE" : b \in Draw(probability)}

\* The values TruthValue.evaluate(sample_probability) can return.
EvaluateResults(tv, sample_probability) ==
    IF tv.value = "SUPERPOSITION" /\ sample_probability /\ tv.probability # "None"
    THEN Sampled(tv.probability)
    ELSE {tv.value}

\* An evaluate that stores what it returns.
AfterEvaluateStoring(tv, result) == [tv EXCEPT !.value = result]

\* The object after TruthValue.evaluate returned result: evaluate has no assignment.
AfterEvaluate(tv, result) == tv

\* TruthValue(value, probability=probability)
NewTruthValue(value, probability) ==
    /\ Len(tvObjs) < MaxTruthValues
    /\ tvObjs' = Append(tvObjs, TruthValueWith(value, probability))
    /\ tvCall' = [op |-> "TruthValue"]
    /\ UNCHANGED <<ontVars, walkVars, tmpVars, ctxVars, engVars, regVars, thrVars, serVars, qryVars>>

\* tvObjs[o].evaluate(sample_probability)
CallTruthValueEvaluate(o, sample_probability) ==
    /\ \E result \in EvaluateResults(tvObjs[o], sample_probability) :
         /\ tvObjs' = [tvObjs EXCEPT ![o] = AfterEvaluate(tvObjs[o], result)]
         /\ tvCall' = [op |-> "evaluate", obj |-> o, sample |-> sample_probability,
                       error |-> "None", result |-> result]
    /\ UNCHANGED <<ontVars, walkVars, tmpVars, ctxVars, engVars, regVars, thrVars, serVars, qryVars>>

\* tvObjs[o].collapse_probability()
CallCollapseProbability(o) ==
    /\ IF tvObjs[o].value # "SUPERPOSITION"
       THEN /\ tvCall' = [op |-> "collapse_probability", obj |-> o, sample |-> FALSE,
                          error |-> "None", result |-> tvObjs[o].value]
            /\ UNCHANGED tvObjs
       ELSE IF tvObjs[o].probability = "None"
       THEN /\ tvCall' = [op |-> "collapse_probability", obj |-> o, sample |-> FALSE,
                          error |-> "ValueError", result |-> "None"]
            /\ UNCHANGED tvObjs
       ELSE \E v \in Sampled(tvObjs[o].probability) :
            /\ tvObjs' = [tvObjs EXCEPT ![o].value = v]
            /\ tvCall' = [op |-> "collapse_probability", obj |-> o, sample |-> FALSE,
                          error |-> "None", result |-> v]
    /\ UNCHANGED <<ontVars, walkVars, tmpVars, ctxVars, engVars, regVars, thrVars, serVars, qryVars>>

NextTV ==
    \/ \E v \in TruthStates : \E p \in Probabilities : NewTruthValue(v, p)
    \/ \E o \in 1..Len(tvObjs) : \E s \in BOOLEAN : CallTruthValueEvaluate(o, s)
    \/ \E o \in 1..Len(tvObjs) : CallCollapseProbability(o)

SpecTV == Init /\ [][NextTV]_vars

\* The call just made was made on object o with the method op.
JustCalled(op, o) == tvCall'.op = op /\ tvCall'.obj = o

\* C29: evaluate, with sample_probability true or false, leaves every stored
\* value as it was, and on a value other than SUPERPOSITION returns that value.
\* An existing object changes only in a collapse_probability call on it, and
\* then only its value, from SUPERPOSITION with a probability to the TRUE or
\* FALSE the call returns.  collapse_probability on a SUPERPOSITION without
\* probability raises and changes nothing; on any other state it returns the
\* state and changes nothing.
C29_EvaluateKeepsValue ==
    [][\A o \in 1..Len(tvObjs) :
         /\ JustCalled("evaluate", o) =>
              /\ tvObjs' = tvObjs
              /\ tvCall'.error = "None"
              /\ tvObjs[o].value # "SUPERPOSITION" => tvCall'.result = tvObjs[o].value
              /\ tvObjs[o].value = "SUPERPOSITION" =>
                   tvCall'.result \in {"SUPERPOSITION", "TRUE", "FALSE"}
         /\ tvObjs'[o] # tvObjs[o] =>
              /\ JustCalled("collapse_probability", o)
              /\ tvObjs[o].value = "SUPERPOSITION"
              /\ tvObjs[o].probability # "None"
         /\ JustCalled("collapse_probability", o) =>
              /\ \A q \in 1..Len(tvObjs) : q # o => tvObjs'[q] = tvObjs[q]
              /\ tvObjs'[o].probability = tvObjs[o].probability
              /\ IF tvObjs[o].value # "SUPERPOSITION"
                 THEN tvCall'.error = "None" /\ tvCall'.result = tvObjs[o].value
                                             /\ tvObjs'[o] = tvObjs[o]
                 ELSE IF tvObjs[o].probability = "None"
                 THEN tvCall'.error = "ValueError" /\ tvObjs'[o] = tvObjs[o]
                 ELSE /\ tvCall'.error = "None"
                      /\ tvObjs'[o].value \in {"TRUE", "FALSE"}
                      /\ tvCall'.result = tvObjs'[o].value
      ]_vars

\* A sampling evaluate returned TRUE or FALSE for an object that is still
\* SUPERPOSITION.
C29_Witness ==
    /\ tvCall.op = "evaluate"
    /\ tvCall.sample
    /\ tvCall.result \in {"TRUE", "FALSE"}
    /\ tvObjs[tvCall.obj].value = "SUPERPOSITION"

\* Some object was collapsed: it holds TRUE or FALSE and keeps its probability.
C29_WitnessCollapsed ==
    /\ tvCall.op = "collapse_probability"
    /\ tvCall.error = "None"
    /\ tvObjs[tvCall.obj].probability = SomeProbability
    /\ tvCall.result = "FALSE"
    /\ tvObjs[tvCall.obj].value = "FALSE"

\* ------------------------------------------------------------------------
\* Serialization: to_dict / from_dict of relations, save_ontology and
\* load_ontology (relation.py, temporal.py, quantifier.py, save_load.py).

\* `tv.to_dict()` and `TruthValue.from_dict(data)`: TruthValue defines neither,
\* so the attribute lookup raises.
TruthValueToDict(tv) == Raised("AttributeError")
TruthValueFromDict(data) == Raised("AttributeError")

\* TemporalRelation.to_dict of the relation under observation.  The base
\* Relation was built without truth_value, so it holds TruthValue(UNKNOWN) and
\* `base = super().to_dict()` serializes it first.
TemporalToDict ==
    LET base == TruthValueToDict(TruthValue("UNKNOWN"))
        dt == TruthValueToDict(default_truth)
        tvs == [k \in 1..Len(interval_truths) |-> TruthValueToDict(interval_truths[k].tv)]
    IN IF IsRaised(base) THEN base
       ELSE IF IsRaised(dt) THEN dt
       ELSE IF \E k \in 1..Len(tvs) : IsRaised(tvs[k]) THEN Raised("AttributeError")
       ELSE [default_truth |-> dt,
             interval_truths |->
                 [k \in 1..Len(interval_truths) |->
                    IntervalDict(timeIntervals[interval_truths[k].iv].start_time,
                                 timeIntervals[interval_truths[k].iv].end_time,
                                 tvs[k])]]

\* r.to_dict() on the TemporalRelation under observation
CallToDict ==
    /\ tmpCall.op # "none"
    /\ tmpCall' = IF IsRaised(TemporalToDict)
                  THEN [op |-> "to_dict", outcome |-> TemporalToDict.error]
                  ELSE [op |-> "to_dict", outcome |-> "ok", data |-> TemporalToDict]
    /\ UNCHANGED <<timeIntervals, interval_truths, default_truth,
                   ontVars, walkVars, ctxVars, engVars, extVars>>

NextTmpSer ==
    \/ NextTmp
    \/ CallToDict

SpecTmpSer == Init /\ [][NextTmpSer]_vars

\* What TemporalRelation.from_dict(data, ontology) returns: the stored
\* intervals with their truth values, in order, and the default truth.
Restored(data) ==
    IF \/ data.default_truth # "None"
       \/ \E k \in 1..Len(data.interval_truths) : data.interval_truths[k].truth_value # "None"
    THEN TruthValueFromDict(data)
    ELSE [intervals |-> [k \in 1..Len(data.interval_truths) |->
                           [start_time |-> ParseOptTime(data.interval_truths[k].start_time),
                            end_time   |-> ParseOptTime(data.interval_truths[k].end_time),
                            tv |-> TruthValue("UNKNOWN")]],
          default_truth |-> TruthValue("UNKNOWN")]

\* The stored intervals of the relation under observation, with their truth
\* values, in order, and its default truth.
StoredTruths ==
    [intervals |-> [k \in 1..Len(interval_truths) |->
                      [start_time |-> timeIntervals[interval_truths[k].iv].start_time,
                       end_time   |-> timeIntervals[interval_truths[k].iv].end_time,
                       tv |-> interval_truths[k].tv]],
     default_truth |-> default_truth]

\* C27: to_dict of a TemporalRelation succeeds, and from_dict of what it
\* returned succeeds and gives the same stored intervals, interval truth values
\* and default truth.
C27_TemporalRoundTrip ==
    tmpCall.op = "to_dict" =>
        /\ tmpCall.outcome = "ok"
        /\ ~IsRaised(Restored(tmpCall.data))
        /\ Restored(tmpCall.data) = StoredTruths

\* ---- save_ontology / load_ontology ----
\* A serialized Ontology: the entity dicts (their order in the file is not
\* observed), the predicate dicts, the relation dicts and the quantified
\* relation dicts.  A context of 0 stands for null.

\* QuantifiedRelation(quantifier, variables, relation_template, truth_value)
NewQuantifiedRelation(quantifier, variables, relation_template, truth_value) ==
    [quantifier |-> quantifier, variables |-> UpperAll(variables),
     relation_template |-> relation_template,
     truth_value |-> IF truth_value = "None" THEN "UNKNOWN" ELSE truth_value]

\* ontology.add_quantified_relation(quantifier, variables, relation_template, truth_value)
AddQuantifiedRelation(quantifier, variables, relation_template, truth_value) ==
    /\ Len(quantified_relations) < MaxQuantified
    /\ quantified_relations' =
          Append(quantified_relations,
                 NewQuantifiedRelation(quantifier, variables, relation_template, truth_value))
    /\ ioCall' = [op |-> "add_quantified_relation"]
    /\ UNCHANGED <<savedFile, ontVars, walkVars, tmpVars, ctxVars, engVars,
                   regVars, thrVars, tvVars, qryVars>>

\* Entity.to_dict
EntityToDict(e) ==
    [id |-> e, name |-> entNames[e], parents |-> parents[e], aliases |-> entAliases[e]]

\* Predicate.to_dict
PredicateToDict(p) == [name |-> p.name, inverses |-> p.inverses]

\* `getattr(self.context, "id", None) if self.context else None`
ContextId(ctx) == IF IsRelation(ctx) THEN ctx.id ELSE 0

\* Relation.to_dict of relations[r]; TemporalRelation.to_dict starts with it.
RelationToDict(r) ==
    LET tv == TruthValueToDict(relations[r].truth_value)
    IN IF IsRaised(tv) THEN tv
       ELSE [id |-> r, predicate |-> relations[r].predicate, roles |-> relations[r].roles,
             relation_type |-> relations[r].relation_type,
             context |-> ContextId(relations[r].context), truth_value |-> tv]

\* QuantifiedRelation.to_dict
QuantifiedToDict(qr) ==
    LET tv == TruthValueToDict(qr.truth_value)
    IN IF IsRaised(tv) THEN tv
       ELSE [quantifier |-> qr.quantifier, variables |-> qr.variables,
             relation_template |-> qr.relation_template, truth_value |-> tv]

\* The `data` dict of save_ontology, or the exception raised while building it.
SaveData ==
    LET rels == [r \in 1..Len(relations) |-> RelationToDict(r)]
        qrs == [q \in 1..Len(quantified_relations) |-> QuantifiedToDict(quantified_relations[q])]
    IN IF \E r \in 1..Len(rels) : IsRaised(rels[r]) THEN Raised("AttributeError")
       ELSE IF \E q \in 1..Len(qrs) : IsRaised(qrs[q]) THEN Raised("AttributeError")
       ELSE [entities |-> {EntityToDict(e) : e \in entities},
             predicates |-> [k \in 1..Len(predicates) |-> PredicateToDict(predicates[k])],
             relations |-> rels,
             quantified_relations |-> qrs]

\* save_ontology(ontology, filepath): the file is opened only after data was built.
CallSaveOntology ==
    /\ IF IsRaised(SaveData)
       THEN /\ ioCall' = [op |-> "save_ontology", error |-> SaveData.error]
            /\ UNCHANGED savedFile
       ELSE /\ ioCall' = [op |-> "save_ontology", error |-> "None"]
            /\ savedFile' = [kind |-> "file", data |-> SaveData]
    /\ UNCHANGED <<quantified_relations, ontVars, walkVars, tmpVars, ctxVars, engVars,
                   regVars, thrVars, tvVars, qryVars>>

\* Entity.from_dict(data) without ontology: the parents are not restored.
EntityFromDict(data) ==
    [id |-> data.id, name |-> Upper(data.name), parents |-> {},
     aliases |-> UpperAll(data.aliases)]

\* Predicate.from_dict(data) without ontology: the inverses are not restored.
PredicateFromDict(data) == [name |-> Upper(data.name), inverses |-> <<>>]

\* An id no relation has.
MissingRelationId == 99

\* The ontology a relation is deserialized into: the entity ids, the predicate
\* names and the relations (with their ids) it holds.
LiveOntology ==
    [entities |-> entities,
     predicates |-> {predicates[k].name : k \in 1..Len(predicates)},
     relations |-> [k \in 1..Len(relations) |-> [id |-> k]],
     entRelations |-> entRelations]

\* `next((r for r in ontology.relations if getattr(r, "id", None) == data["context"]), None)`
FindContext(ont, id) ==
    IF id # 0 /\ \E k \in 1..Len(ont.relations) : ont.relations[k].id = id
    THEN RelContext(id)
    ELSE NoContext

\* Relation.from_dict(data, ontology)
RelationFromDict(data, ont) ==
    IF data.predicate \notin ont.predicates THEN Raised("ValueError")
    ELSE IF \E i \in 1..Len(data.roles) : data.roles[i][2] \notin ont.entities
    THEN Raised("KeyError")
    ELSE IF data.truth_value # "None" THEN TruthValueFromDict(data.truth_value)
    ELSE [id |-> data.id, predicate |-> data.predicate, roles |-> data.roles,
          relation_type |-> Upper(data.relation_type),
          context |-> FindContext(ont, data.context),
          truth_value |-> "UNKNOWN", temporal |-> FALSE, dependents |-> {}]

\* TemporalRelation.from_dict(data, ontology): the context is the serialized
\* id itself and the id is the fresh one of the constructor (negative here).
TemporalFromDict(data, ont) ==
    IF data.predicate \notin ont.predicates THEN Raised("KeyError")
    ELSE IF \E i \in 1..Len(data.roles) : data.roles[i][2] \notin ont.entities
    THEN Raised("KeyError")
    ELSE IF IsRaised(Restored(data)) THEN Restored(data)
    ELSE [id |-> 0 - (Len(ont.relations) + 1), predicate |-> data.predicate,
          roles |-> data.roles, relation_type |-> Upper(data.relation_type),
          context |-> [kind |-> "id", id |-> data.context],
          truth_value |-> "UNKNOWN", temporal |-> TRUE, dependents |-> {},
          interval_truths |-> Restored(data).intervals]

\* The relations loop of load_ontology from the k-th dict on.
RECURSIVE LoadRelations(_, _, _)
LoadRelations(dicts, k, ont) ==
    IF k > Len(dicts) THEN ont
    ELSE LET r == IF dicts[k].relation_type = "TEMPORAL"
                  THEN TemporalFromDict(dicts[k], ont)
                  ELSE RelationFromDict(dicts[k], ont)
         IN IF IsRaised(r) THEN r
            ELSE LoadRelations(dicts, k + 1,
                     [ont EXCEPT !.relations = Append(@, r),
                                 !.entRelations = AttachToRoles(@, DictValues(r.roles),
                                                                Len(ont.relations) + 1)])

\* QuantifiedRelation.from_dict(data, ontology)
QuantifiedFromDict(data) ==
    IF data.quantifier \notin {"FORALL", "EXISTS"} THEN Raised("KeyError")
    ELSE TruthValueFromDict(data.truth_value)

\* load_ontology on a file holding data: the Ontology returned, or the exception.
LoadOntology(data) ==
    LET ents == {EntityFromDict(d) : d \in data.entities}
        preds == [k \in 1..Len(data.predicates) |-> PredicateFromDict(data.predicates[k])]
        start == [entities |-> {d.id : d \in ents},
                  predicates |-> {preds[k].name : k \in 1..Len(preds)},
                  relations |-> <<>>,
                  entRelations |-> [e \in EntityIds |-> <<>>]]
        withRels == LoadRelations(data.relations, 1, start)
        qrs == [q \in 1..Len(data.quantified_relations) |->
                   QuantifiedFromDict(data.quantified_relations[q])]
    IN IF IsRaised(withRels) THEN withRels
       ELSE IF qrs # <<>> THEN qrs[1]
       ELSE [entities |-> ents, predicates |-> preds,
             relations |-> withRels.relations, entRelations |-> withRels.entRelations,
             quantified_relations |-> <<>>]

\* load_ontology(filepath) on a file with the given content
CallLoadOntology(data) ==
    /\ ioCall' = IF IsRaised(LoadOntology(data))
                 THEN [op |-> "load_ontology", data |-> data, error |-> LoadOntology(data).error]
                 ELSE [op |-> "load_ontology", data |-> data, error |-> "None",
                       result |-> LoadOntology(data)]
    /\ UNCHANGED <<quantified_relations, savedFile, ontVars, walkVars, tmpVars, ctxVars,
                   engVars, regVars, thrVars, tvVars, qryVars>>

\* Relation.from_dict(data, ontology) on the Ontology built so far
CallRelationFromDict(data) ==
    /\ ioCall' = IF IsRaised(RelationFromDict(data, LiveOntology))
                 THEN [op |-> "Relation.from_dict", data |-> data,
                       error |-> RelationFromDict(data, LiveOntology).error]
                 ELSE [op |-> "Relation.from_dict", data |-> data, error |-> "None",
                       result |-> RelationFromDict(data, LiveOntology)]
    /\ UNCHANGED <<quantified_relations, savedFile, ontVars, walkVars, tmpVars, ctxVars,
                   engVars, regVars, thrVars, tvVars, qryVars>>

\* The calls that build the Ontology to be saved: entities DOG and PET (uuid4
\* giving either id), the predicate HAS, HAS(DOG, PET) = TRUE with or without
\* a context, and the quantified relations FORALL X = FALSE and EXISTS Y = TRUE.
SerEntities == {1, 2}
SerNames == <<"dog", "pet">>
QuantifiedArgs ==
    { <<"FORALL", <<"X">>, "HAS(DOG, $X)", "FALSE">>,
      <<"EXISTS", <<"Y">>, "HAS(DOG, $Y)", "TRUE">> }

SerAddEntity == \E id \in SerEntities : CallAddEntity(id, SerNames[id], {}, "None")

SerAddPredicate == AddPredicate("HAS")

SerAddRelation ==
    \E ctx \in DedupContexts :
        /\ PredicateIndex(predicates, "HAS") # 0
        /\ UsesOnly(SO, entities)
        /\ CanAddRelation(FindExisting("HAS", SO, ctx))
        /\ CallAddRelation("HAS", SO, "GENERAL", ctx, "TRUE")

NextSave ==
    \/ SerAddEntity
    \/ SerAddPredicate
    \/ SerAddRelation
    \/ \E a \in QuantifiedArgs : AddQuantifiedRelation(a[1], a[2], a[3], a[4])
    \/ CallSaveOntology
    \/ savedFile.kind = "file" /\ CallLoadOntology(savedFile.data)

SpecSave == Init /\ [][NextSave]_vars

\* The serialized Ontology holds the entities, predicates, relations and
\* quantified relations of the Ontology, with their ids, names, roles and
\* truth states.
Faithful(data) ==
    /\ {<<d.id, d.name>> : d \in data.entities} = {<<e, entNames[e]>> : e \in entities}
    /\ {data.predicates[k].name : k \in 1..Len(data.predicates)}
         = {predicates[k].name : k \in 1..Len(predicates)}
    /\ Len(data.relations) = Len(relations)
    /\ \A r \in 1..Len(relations) :
         /\ data.relations[r].id = r
         /\ data.relations[r].predicate = relations[r].predicate
         /\ DictEq(data.relations[r].roles, relations[r].roles)
         /\ data.relations[r].truth_value = relations[r].truth_value
    /\ Len(data.quantified_relations) = Len(quantified_relations)
    /\ \A q \in 1..Len(quantified_relations) :
         /\ data.quantified_relations[q].quantifier = quantified_relations[q].quantifier
         /\ data.quantified_relations[q].variables = quantified_relations[q].variables
         /\ data.quantified_relations[q].truth_value = quantified_relations[q].truth_value

\* The loaded Ontology holds what the file holds.
SameAsFile(ont, data) ==
    /\ {<<e.id, e.name>> : e \in ont.entities} = {<<d.id, d.name>> : d \in data.entities}
    /\ {ont.predicates[k].name : k \in 1..Len(ont.predicates)}
         = {data.predicates[k].name : k \in 1..Len(data.predicates)}
    /\ Len(ont.relations) = Len(data.relations)
    /\ \A r \in 1..Len(data.relations) :
         /\ ont.relations[r].id = data.relations[r].id
         /\ ont.relations[r].predicate = data.relations[r].predicate
         /\ DictEq(ont.relations[r].roles, data.relations[r].roles)
         /\ ont.relations[r].truth_value = data.relations[r].truth_value
    /\ Len(ont.quantified_relations) = Len(data.quantified_relations)
    /\ \A q \in 1..Len(data.quantified_relations) :
         /\ ont.quantified_relations[q].quantifier = data.quantified_relations[q].quantifier
         /\ ont.quantified_relations[q].variables = data.quantified_relations[q].variables
         /\ ont.quantified_relations[q].truth_value = data.quantified_relations[q].truth_value

\* C26: save_ontology succeeds and writes the entities, predicates, relations
\* and quantified relations of the Ontology with their ids, names, roles and
\* truth states; load_ontology of the file succeeds and returns an Ontology
\* holding the same.
C26_SaveLoadRoundTrip ==
    [][/\ (ioCall'.op = "save_ontology" /\ (ioCall' # ioCall \/ savedFile' # savedFile)) =>
            /\ ioCall'.error = "None"
            /\ Faithful(savedFile'.data)
       /\ (ioCall'.op = "load_ontology" /\ ioCall' # ioCall) =>
            /\ ioCall'.error = "None"
            /\ SameAsFile(ioCall'.result, ioCall'.data)
      ]_vars

\* A serialized plain relation HAS(subject 1, object 2) with the given id,
\* predicate name, roles and context id, and no truth value.
RelationDict(id, pred, roles, context) ==
    [id |-> id, predicate |-> pred, roles |-> roles, relation_type |-> "GENERAL",
     context |-> context, truth_value |-> "None"]

\* A serialized TemporalRelation without intervals.
TemporalDict(id, pred, roles, context) ==
    [id |-> id, predicate |-> pred, roles |-> roles, relation_type |-> "TEMPORAL",
     context |-> context, truth_value |-> "None",
     default_truth |-> "None", interval_truths |-> <<>>]

\* The dicts given to Relation.from_dict: without context, with the context
\* relation 1, with a context id no relation has, with a predicate that is
\* never registered, and with a serialized truth value.
RelationDicts ==
    { RelationDict(5, "HAS", SO, 0),
      RelationDict(5, "HAS", SO, 1),
      RelationDict(5, "HAS", SubjectOnly, MissingRelationId),
      RelationDict(5, "OWNS", SubjectOnly, 0),
      [RelationDict(5, "HAS", SO, 0) EXCEPT !.truth_value = "TRUE"] }

\* The entities and predicates of the files given to load_ontology.
FileEntities ==
    { [id |-> 1, name |-> "DOG", parents |-> {}, aliases |-> <<>>],
      [id |-> 2, name |-> "PET", parents |-> {}, aliases |-> <<>>] }
FilePredicates == <<[name |-> "HAS", inverses |-> <<>>]>>

\* A file with the given relation dicts.
FileWith(rels) ==
    [entities |-> FileEntities, predicates |-> FilePredicates,
     relations |-> rels, quantified_relations |-> <<>>]

\* The files given to load_ontology: a relation and one in its context; a
\* relation whose context id is nowhere in the file; one whose predicate and
\* one whose entity is not in the file; a temporal relation whose context id
\* is nowhere in the file.
WrittenFiles ==
    { FileWith(<<RelationDict(5, "HAS", SO, 0), RelationDict(6, "HAS", SubjectOnly, 5)>>),
      FileWith(<<RelationDict(5, "HAS", SO, 0),
                 RelationDict(6, "HAS", SubjectOnly, MissingRelationId)>>),
      FileWith(<<RelationDict(5, "HAS", SO, 0), RelationDict(6, "OWNS", SubjectOnly, 0)>>),
      FileWith(<<RelationDict(5, "HAS", <<<<"subject", 3>>>>, 0)>>),
      FileWith(<<TemporalDict(5, "HAS", SO, MissingRelationId)>>) }

NextLoad ==
    \/ SerAddEntity
    \/ SerAddPredicate
    \/ SerAddRelation
    \/ \E data \in RelationDicts : CallRelationFromDict(data)
    \/ \E data \in WrittenFiles : CallLoadOntology(data)

SpecLoad == Init /\ [][NextLoad]_vars

\* What the relation dict references that the ontology does not hold: its
\* predicate name, entity ids or context id.
MissingReferences(data, ont) ==
    {<<"predicate", data.predicate>> : x \in {data.predicate} \ ont.predicates}
    \cup {<<"entity", data.roles[i][2]>> :
             i \in {j \in 1..Len(data.roles) : data.roles[j][2] \notin ont.entities}}
    \cup {<<"context", data.context>> :
             x \in {data.context} \ ({0} \cup {ont.relations[k].id : k \in 1..Len(ont.relations)})}

\* Some relation dict of the file references what the file's entities,
\* predicates and earlier relations do not hold.
FileMissesReference(data) ==
    \E k \in 1..Len(data.relations) :
        MissingReferences(data.relations[k],
            [entities |-> {d.id : d \in data.entities},
             predicates |-> {data.predicates[j].name : j \in 1..Len(data.predicates)},
             relations |-> [j \in 1..(k - 1) |-> [id |-> data.relations[j].id]]]) # {}

\* C28: deserialising a relation that references a predicate name, an entity
\* id or a context id the target Ontology does not hold fails and registers
\* nothing, the missing context id included: Relation.from_dict against the
\* Ontology built so far, and load_ontology of a file with such a relation.
C28_MissingReferenceFails ==
    [][ioCall' # ioCall =>
         /\ (ioCall'.op = "Relation.from_dict"
               /\ MissingReferences(ioCall'.data, LiveOntology) # {}) =>
                  /\ ioCall'.error # "None"
                  /\ UNCHANGED <<relations, entRelations>>
         /\ (ioCall'.op = "load_ontology" /\ FileMissesReference(ioCall'.data)) =>
                  ioCall'.error # "None"
      ]_vars

\* ------------------------------------------------------------------------
\* Ontology.query_relations (ontology.py 318-401).
\* TruthValue defines no __eq__, so `tv != truth_value` compares object
\* identity.  Every relation, interval and quantified relation holds a
\* TruthValue object of its own; an object is named by its holder.

\* The TruthValue object of relation r / of the interval iv of the registered
\* TemporalRelation / its default_truth / of quantified relation q, and a new
\* TruthValue(value) made by the caller.
TruthOfRelation(r) == [kind |-> "relation", r |-> r]
TruthOfInterval(iv) == [kind |-> "interval", iv |-> iv]
DefaultTruth == [kind |-> "default"]
TruthOfQuantified(q) == [kind |-> "quantified", q |-> q]
NewTruth(value) == [kind |-> "new", value |-> value]
NoTruth == [kind |-> "none"]

\* tv.value of a TruthValue object
ValueOf(obj) ==
    CASE obj.kind = "relation" -> relations[obj.r].truth_value
      [] obj.kind = "interval" -> interval_truths[KeyIndex(interval_truths, obj.iv)].tv.value
      [] obj.kind = "default" -> default_truth.value
      [] obj.kind = "quantified" -> quantified_relations[obj.q].truth_value
      [] OTHER -> obj.value

\* Entities DOG (1) and PET (2, created with the description "d"), and the
\* predicate HAS, are registered.
QueryInit ==
    /\ entities = {1, 2}
    /\ parents = [e \in EntityIds |-> {}]
    /\ entRelations = [e \in EntityIds |-> <<>>]
    /\ relations = <<>>
    /\ lastOp = "none"
    /\ ret = 0
    /\ firstRet = {}
    /\ WalkIdle /\ TmpIdle /\ CtxIdle
    /\ predicates = <<NewPredicate("has")>>
    /\ truthCall = [op |-> "none"]
    /\ entNames = [e \in EntityIds |-> IF e = 1 THEN "DOG" ELSE IF e = 2 THEN "PET" ELSE "None"]
    /\ entAliases = [e \in EntityIds |-> IF e = 2 THEN UpperAll(<<"d">>) ELSE <<>>]
    /\ alias_map = <<>>
    /\ entCall = [op |-> "none"]
    /\ ThrIdle /\ TvIdle /\ SerIdle /\ QryIdle

\* add_relation(HAS, roles, truth_value=tv)
QueryAddRelation ==
    \E roles \in {SO, SubjectOnly}, tv \in {"None", "TRUE"} :
        /\ CanAddRelation(FindExisting("HAS", roles, NoContext))
        /\ AddRelation("HAS", roles, "GENERAL", NoContext, tv)

\* add_temporal_relation(HAS, roles, default_truth=dt) when no TemporalRelation
\* is registered yet: the new relation is the one observed from then on.
QueryAddTemporalRelation(dt) ==
    LET r == Len(relations) + 1
    IN /\ tmpCall.op = "none"
       /\ Len(relations) < MaxRels
       /\ relations' = Append(relations, NewTemporalRelation("HAS", SO, "GENERAL", NoContext, dt))
       /\ entRelations' = PropagateToDescendants(
                              AttachToRoles(entRelations, DictValues(SO), r),
                              entities, parents, SO, r)
       /\ lastOp' = "add_temporal_relation"
       /\ ret' = r
       /\ default_truth' = TruthValueOrDefault(dt)
       /\ interval_truths' = <<>>
       /\ tmpCall' = [op |-> "TemporalRelation"]
       /\ UNCHANGED <<entities, parents, firstRet, timeIntervals, walkVars, ctxVars, engVars, extVars>>

\* The object `tv` of the truth filter for relation r.
FilteredTruth(r, moment) ==
    IF relations[r].temporal /\ moment # None
    THEN LET k == FirstContaining(interval_truths, timeIntervals, moment[1])
         IN IF k # 0 THEN TruthOfInterval(interval_truths[k].iv) ELSE DefaultTruth
    ELSE TruthOfRelation(r)

\* `e.name for e in r.roles.values()` plus the aliases of those entities
RelationEntities(r) ==
    UNION {AllNames(relations[r].roles[i][2]) : i \in 1..Len(relations[r].roles)}

\* The body of the loop over self.relations: r is appended to results.
RelationMatches(r, relation_type, ents, predicate, moment, truth_value) ==
    /\ relation_type # "None" => relations[r].relation_type = relation_type
    /\ ents # <<>> => \A i \in 1..Len(ents) : ents[i] \in RelationEntities(r)
    /\ predicate # "None" => relations[r].predicate = predicate
    /\ truth_value # NoTruth => FilteredTruth(r, moment) = truth_value

\* The names a template's roles hold: a string as it is, an entity by its name.
Involved(template) ==
    {IF "str" \in DOMAIN template.roles[i][2]
     THEN template.roles[i][2].str
     ELSE entNames[template.roles[i][2].ent] : i \in 1..Len(template.roles)}

\* The body of the loop over self.quantified_relations.
QuantifiedMatches(q, relation_type, ents, predicate, truth_value) ==
    /\ relation_type = "None"
    /\ ents # <<>> => \A i \in 1..Len(ents) :
                          ents[i] \in Involved(quantified_relations[q].relation_template)
    /\ predicate # "None" => quantified_relations[q].relation_template.predicate = predicate
    /\ truth_value # NoTruth => TruthOfQuantified(q) = truth_value

\* The positions of seq, in order, that satisfy Test.
Positions(n, Test(_)) == SelectSeq([i \in 1..n |-> i], Test)

\* query_relations(relation_type, entities, predicate, moment, truth_value):
\* the relations and then the quantified relations found, or None for nothing.
QueryRelations(relation_type, ents, predicate, moment, truth_value) ==
    LET rels == Positions(Len(relations),
                    LAMBDA r : RelationMatches(r, relation_type, ents, predicate, moment, truth_value))
        qrs == Positions(Len(quantified_relations),
                    LAMBDA q : QuantifiedMatches(q, relation_type, ents, predicate, truth_value))
    IN [relations |-> rels, quantified |-> qrs,
        returned |-> IF rels = <<>> /\ qrs = <<>> THEN "None" ELSE "list"]

\* ontology.query_relations(...)
CallQueryRelations(relation_type, ents, predicate, moment, truth_value) ==
    /\ qryCall' = [op |-> "query_relations", relation_type |-> relation_type,
                   entities |-> ents, predicate |-> predicate, moment |-> moment,
                   truth_value |-> truth_value,
                   result |-> QueryRelations(relation_type, ents, predicate, moment, truth_value)]
    /\ UNCHANGED <<ontVars, walkVars, tmpVars, ctxVars, engVars, regVars, thrVars, tvVars, serVars>>

\* The template HAS(subject: DOG, object: $X) with the entity itself as subject.
DogHasX == [predicate |-> "HAS", roles |-> <<<<"subject", [ent |-> 1]>>, <<"object", [str |-> "$X"]>>>>]

\* The truth filters: none, a new TruthValue of either state, and the objects
\* the relations, the intervals, the TemporalRelation and the quantified
\* relations hold.
TruthFilters ==
    {NoTruth, NewTruth("TRUE"), NewTruth("UNKNOWN")}
    \cup {TruthOfRelation(r) : r \in 1..Len(relations)}
    \cup {TruthOfInterval(interval_truths[k].iv) : k \in 1..Len(interval_truths)}
    \cup {DefaultTruth : x \in {r \in 1..Len(relations) : relations[r].temporal}}
    \cup {TruthOfQuantified(q) : q \in 1..Len(quantified_relations)}

\* The (relation_type, entities, predicate, moment) given to query_relations.
QueryFilters ==
    { <<"None", <<>>, "None", None>>,
      <<"GENERAL", <<"DOG", "D">>, "HAS", None>>,
      <<"None", <<>>, "None", Some(DatetimeMin)>>,
      <<"GENERAL", <<>>, "HAS", Some(DatetimeMin)>> }

NextQuery ==
    \/ QueryAddRelation
    \/ \E dt \in {"None", "TRUE"} : QueryAddTemporalRelation(dt)
    \/ NewTimeInterval(Some(DatetimeMin), Some(DatetimeMax))
    \/ \E iv \in 1..Len(timeIntervals) : AddInterval(iv, "TRUE")
    \/ AddQuantifiedRelation("FORALL", <<"x">>, DogHasX, "TRUE")
    \/ \E a \in QueryFilters, truth_value \in TruthFilters :
           CallQueryRelations(a[1], a[2], a[3], a[4], truth_value)

SpecQuery == QueryInit /\ [][NextQuery]_vars

\* The registered relations that satisfy every supplied filter, the truth
\* filter by the state of the values.
Satisfying(relation_type, ents, predicate, moment, truth_value) ==
    {r \in 1..Len(relations) :
        /\ relation_type # "None" => relations[r].relation_type = relation_type
        /\ \A i \in 1..Len(ents) : ents[i] \in RelationEntities(r)
        /\ predicate # "None" => relations[r].predicate = predicate
        /\ truth_value # NoTruth => ValueOf(FilteredTruth(r, moment)) = ValueOf(truth_value)}

\* C31: query_relations returns all and only the registered relations that
\* satisfy every supplied filter; a relation satisfies the truth filter when
\* its truth value (for a TemporalRelation with a moment: that of the stored
\* interval containing the moment, else default_truth) has the state of the
\* filter value, whether or not the filter is the same TruthValue object.
C31_QueryReturnsMatches ==
    [][(qryCall' # qryCall /\ qryCall'.op = "query_relations") =>
          {qryCall'.result.relations[i] : i \in 1..Len(qryCall'.result.relations)}
             = Satisfying(qryCall'.relation_type, qryCall'.entities, qryCall'.predicate,
                          qryCall'.moment, qryCall'.truth_value)
      ]_vars

\* ------------------------------------------------------------------------
\* QuantifiedRelation.instantiate (quantifier.py 33-48).
\* A template is a dict {"predicate": ..., "roles": {...}} (form "dict", what
\* add_quantified_relation documents and query_relations subscripts) or an
\* object with the attributes predicate and roles (form "object").  A role
\* value is a string [str |-> s] or an entity [ent |-> e]; the predicate is a
\* name [str |-> n] or a Predicate object [pred |-> n].

\* `val.startswith("$")` on the strings used here, and `val[1:]`
StartsWithDollar(val) == val \in {"$X", "$Y"}
VarName(val) == IF val = "$X" THEN "X" ELSE "Y"

\* `var_name not in kwargs` / `kwargs[var_name]` on keyword arguments given as
\* <<name, entity>> pairs
HasKey(kwargs, name) == \E i \in 1..Len(kwargs) : kwargs[i][1] = name
Lookup(kwargs, name) == kwargs[CHOOSE i \in 1..Len(kwargs) : kwargs[i][1] = name][2]

\* The for loop of instantiate from role i on: roles_instantiated (in the
\* field roles), or the ValueError of the first placeholder whose variable is not in kwargs.
RECURSIVE Substitute(_, _, _, _)
Substitute(roles, i, kwargs, done) ==
    IF i > Len(roles) THEN [roles |-> done]
    ELSE LET val == roles[i][2]
         IN IF "str" \in DOMAIN val /\ StartsWithDollar(val.str)
            THEN IF ~HasKey(kwargs, VarName(val.str))
                 THEN Raised("ValueError")
                 ELSE Substitute(roles, i + 1, kwargs,
                                 Append(done, <<roles[i][1], [ent |-> Lookup(kwargs, VarName(val.str))]>>))
            ELSE Substitute(roles, i + 1, kwargs, Append(done, <<roles[i][1], val>>))

\* qr.instantiate(**kwargs): the Relation returned, or the exception.  A dict
\* has no attribute `predicate`; Relation.__init__ reads predicate.name, which
\* a string does not have.
Instantiate(qr, kwargs) ==
    LET template == qr.relation_template
        roles_instantiated == Substitute(template.roles, 1, kwargs, <<>>)
    IN IF template.form = "dict" THEN Raised("AttributeError")
       ELSE IF IsRaised(roles_instantiated) THEN roles_instantiated
       ELSE IF "str" \in DOMAIN template.predicate THEN Raised("AttributeError")
       ELSE [predicate |-> Upper(template.predicate.pred), roles |-> roles_instantiated.roles,
             relation_type |-> "GENERAL", context |-> NoContext, truth_value |-> "UNKNOWN"]

\* quantified_relations[q].instantiate(**kwargs)
CallInstantiate(q, kwargs) ==
    /\ qryCall' = IF IsRaised(Instantiate(quantified_relations[q], kwargs))
                  THEN [op |-> "instantiate", q |-> q, kwargs |-> kwargs,
                        error |-> Instantiate(quantified_relations[q], kwargs).error]
                  ELSE [op |-> "instantiate", q |-> q, kwargs |-> kwargs, error |-> "None",
                        result |-> Instantiate(quantified_relations[q], kwargs)]
    /\ UNCHANGED <<ontVars, walkVars, tmpVars, ctxVars, engVars, regVars, thrVars, tvVars, serVars>>

\* The templates HAS(subject: DOG, object: $X): the dict of the docstring, and
\* objects whose predicate is the Predicate and its name.
TemplateRoles == <<<<"subject", [ent |-> 1]>>, <<"object", [str |-> "$X"]>>>>
Templates ==
    { [form |-> "dict", predicate |-> [str |-> "HAS"], roles |-> TemplateRoles],
      [form |-> "object", predicate |-> [pred |-> "HAS"], roles |-> TemplateRoles],
      [form |-> "object", predicate |-> [str |-> "HAS"], roles |-> TemplateRoles] }

\* The keyword arguments of instantiate: X bound, nothing bound, Y bound.
Bindings == {<<<<"X", 2>>>>, <<>>, <<<<"Y", 2>>>>}

NextInst ==
    \/ \E quantifier \in {"FORALL", "EXISTS"}, template \in Templates :
           AddQuantifiedRelation(quantifier, <<"x">>, template, "None")
    \/ \E q \in 1..Len(quantified_relations), kwargs \in Bindings : CallInstantiate(q, kwargs)

SpecInst == QueryInit /\ [][NextInst]_vars

\* The placeholders of the template whose variable the bindings lack.
Unbound(template, kwargs) ==
    {i \in 1..Len(template.roles) :
        /\ "str" \in DOMAIN template.roles[i][2]
        /\ StartsWithDollar(template.roles[i][2].str)
        /\ ~HasKey(kwargs, VarName(template.roles[i][2].str))}

\* The template's roles with every placeholder replaced by the bound entity.
Bound(template, kwargs) ==
    [i \in 1..Len(template.roles) |->
        IF "str" \in DOMAIN template.roles[i][2] /\ StartsWithDollar(template.roles[i][2].str)
        THEN <<template.roles[i][1], [ent |-> Lookup(kwargs, VarName(template.roles[i][2].str))]>>
        ELSE template.roles[i]]

\* C32: for a quantified relation whose template is a dict {predicate, roles},
\* instantiate returns a Relation over the template's predicate whose roles
\* hold the bound entity for every placeholder and the literal value
\* otherwise; with a placeholder's variable missing it fails with the
\* unbound-variable error (ValueError); the quantified relations and the
\* Ontology are unchanged either way.
C32_InstantiateSubstitutes ==
    [][(qryCall' # qryCall /\ qryCall'.op = "instantiate"
          /\ quantified_relations[qryCall'.q].relation_template.form = "dict") =>
          LET template == quantified_relations[qryCall'.q].relation_template
          IN /\ IF Unbound(template, qryCall'.kwargs) # {}
                THEN qryCall'.error = "ValueError"
                ELSE /\ qryCall'.error = "None"
                     /\ qryCall'.result.predicate = template.predicate.str
                     /\ qryCall'.result.roles = Bound(template, qryCall'.kwargs)
             /\ UNCHANGED <<quantified_relations, entities, relations, entRelations, predicates>>
      ]_vars

\* ------------------------------------------------------------------------
\* QuantifiedRelation.__eq__ / __hash__ / _flatten_template (quantifier.py 68-95).
\* Here a template dict is a sequence of <<key, value>> pairs in insertion
\* order; a value is a string [str |-> s] or a dict [dict |-> pairs].

\* dict.__eq__ on a template value: strings by value, dicts by their items
\* whatever the insertion order.
ValueEq(a, b) ==
    IF "dict" \in DOMAIN a /\ "dict" \in DOMAIN b THEN DictEq(a.dict, b.dict) ELSE a = b

\* dict.__eq__ on templates: the same keys with equal values.
TemplateEq(a, b) ==
    /\ {a[i][1] : i \in 1..Len(a)} = {b[i][1] : i \in 1..Len(b)}
    /\ \A i \in 1..Len(a), j \in 1..Len(b) : a[i][1] = b[j][1] => ValueEq(a[i][2], b[j][2])

\* QuantifiedRelation.__eq__(self, other)
QuantifiedEq(self, other) ==
    /\ self.quantifier = other.quantifier
    /\ self.variables = other.variables
    /\ TemplateEq(self.relation_template, other.relation_template)

\* _flatten_template: a dict becomes the tuple of its (key, flattened value)
\* pairs in insertion order, anything else stays as it is.
FlattenTemplate(template) ==
    [i \in 1..Len(template) |->
        <<template[i][1],
          IF "dict" \in DOMAIN template[i][2]
          THEN [tuple |-> template[i][2].dict]
          ELSE template[i][2]>>]

\* What __hash__ hashes: (quantifier, tuple(variables), frozenset(flattened
\* template)).  Two hashes are taken to be equal exactly when what is hashed
\* is equal; collisions of hash() are left out.
Hashed(qr) ==
    <<qr.quantifier, qr.variables,
      {FlattenTemplate(qr.relation_template)[i] : i \in 1..Len(qr.relation_template)}>>

\* quantified_relations[a] == quantified_relations[b], and whether their hashes are equal
CallEq(a, b) ==
    /\ qryCall' = [op |-> "__eq__", a |-> a, b |-> b,
                   result |-> QuantifiedEq(quantified_relations[a], quantified_relations[b]),
                   same_hash |-> Hashed(quantified_relations[a]) = Hashed(quantified_relations[b])]
    /\ UNCHANGED <<ontVars, walkVars, tmpVars, ctxVars, engVars, regVars, thrVars, tvVars, serVars>>

\* HAS(subject: DOG, object: $X) written with the keys in either order at
\* either level, and HAS(subject: DOG, object: $Y).
RolesOf(pairs) == <<"roles", [dict |-> pairs]>>
HasKeyFirst == <<"predicate", [str |-> "HAS"]>>
EqTemplates ==
    { <<HasKeyFirst, RolesOf(<<<<"subject", [str |-> "DOG"]>>, <<"object", [str |-> "$X"]>>>>)>>,
      <<HasKeyFirst, RolesOf(<<<<"object", [str |-> "$X"]>>, <<"subject", [str |-> "DOG"]>>>>)>>,
      <<RolesOf(<<<<"subject", [str |-> "DOG"]>>, <<"object", [str |-> "$X"]>>>>), HasKeyFirst>>,
      <<HasKeyFirst, RolesOf(<<<<"subject", [str |-> "DOG"]>>, <<"object", [str |-> "$Y"]>>>>)>> }

NextEq ==
    \/ \E quantifier \in {"FORALL", "EXISTS"}, template \in EqTemplates, tv \in {"TRUE", "FALSE"} :
           AddQuantifiedRelation(quantifier, <<"x">>, template, tv)
    \/ \E a, b \in 1..Len(quantified_relations) : CallEq(a, b)

SpecEq == Init /\ [][NextEq]_vars

\* The statement a template denotes: its keys with their values, the roles as
\* a set of role-value pairs.
Denoted(template) ==
    {<<template[i][1],
       IF "dict" \in DOMAIN template[i][2]
       THEN [items |-> DictItems(template[i][2].dict)]
       ELSE template[i][2]>> : i \in 1..Len(template)}

\* C33: two quantified relations are equal exactly when they have the same
\* quantifier, the same variable sequence and structurally the same template,
\* whatever their truth values and the insertion order of the template's
\* roles; and two equal quantified relations have the same hash.
C33_EqualityAndHash ==
    qryCall.op = "__eq__" =>
        LET x == quantified_relations[qryCall.a]
            y == quantified_relations[qryCall.b]
        IN /\ qryCall.result <=> /\ x.quantifier = y.quantifier
                                 /\ x.variables = y.variables
                                 /\ Denoted(x.relation_template) = Denoted(y.relation_template)
           /\ qryCall.result => qryCall.same_hash

-----------------------------------------------------------------------------
\* SpecRepropagate: add_entity and add_relation as in SpecProp, and
\* propagation re-run by hand.  Entities are added without a parent or under
\* one registered parent (chains of them give the further ancestors),
\* relations are asserted over the first two entities, and
\* propagate_relation_to_descendants is called on any registered relation.

\* ontology.propagate_relation_to_descendants(relation)
CallPropagate(r) ==
    /\ r \in 1..Len(relations)
    /\ entRelations' = PropagateToDescendants(entRelations, entities, parents,
                                              relations[r].roles, r)
    /\ lastOp' = "propagate_relation_to_descendants"
    /\ ret' = r
    /\ UNCHANGED <<entities, parents, relations, firstRet, walkVars, tmpVars, ctxVars, engVars, extVars>>

\* ontology.add_entity(name, word_type, parents) with no parent or one
RepAddEntity ==
    \E ps \in SUBSET entities :
        /\ Cardinality(ps) <= 1
        /\ CanAddEntity
        /\ AddEntity(ps)

NextRepropagate ==
    \/ RepAddEntity
    \/ PropAddRelation
    \/ \E r \in 1..MaxRels : CallPropagate(r)

SpecRepropagate == Init /\ [][NextRepropagate]_vars

\* The same calls, entities under any set of parents, and
\* add_temporal_relation.
NextRepropagateAll ==
    \/ NextRepropagate
    \/ PropAddEntity
    \/ PropAddTemporalRelation

SpecRepropagateAll == Init /\ [][NextRepropagateAll]_vars

\* How often x occurs in a list.
Occurrences(x, list) == Cardinality({i \in 1..Len(list) : list[i] = x})

\* The step is a call of add_entity.
AddedEntity == entities' # entities

\* The step is a call of propagate_relation_to_descendants(ret').
Propagated ==
    /\ lastOp' = "propagate_relation_to_descendants"
    /\ entities' = entities
    /\ relations' = relations

\* C34: add_entity leaves the new entity's relations list empty and changes
\* no other entity's list, whatever relations its ancestors fill roles of; a
\* call of propagate_relation_to_descendants(r) changes no entity that already
\* had r and leaves r exactly once in the list of every descendant of a role
\* entity of r that did not have it, by appending it.
C34_PointInTimePropagation ==
    [][/\ AddedEntity =>
            \A e \in entities' :
                entRelations'[e] = IF e \in entities THEN entRelations[e] ELSE <<>>
       /\ Propagated =>
            \A e \in entities :
                IF InList(ret', entRelations[e])
                THEN entRelations'[e] = entRelations[e]
                ELSE IF StrictAncestors(parents, e) \cap RoleEntities(relations[ret']) # {}
                THEN /\ entRelations'[e] = Append(entRelations[e], ret')
                     /\ Occurrences(ret', entRelations'[e]) = 1
                ELSE entRelations'[e] = entRelations[e]]_vars

\* Entity 2 was added under entity 1 after relation 1 had been asserted about
\* entity 1, and before relation 2: only the re-run propagation of relation 1
\* has put it behind relation 2 in the list of entity 2.
C34_Witness ==
    /\ lastOp = "propagate_relation_to_descendants"
    /\ ret = 1
    /\ 1 \in parents[2]
    /\ RoleEntities(relations[1]) = {1}
    /\ entRelations[2] = <<2, 1>>

\* C35: each relation occurs at most once in any entity's relations list.
C35_AttachedOnce ==
    \A e \in entities : \A r \in 1..Len(relations) :
        Occurrences(r, entRelations[e]) <= 1

-----------------------------------------------------------------------------
CanAddTruthRelation(existing) == existing # 0 \/ Len(relations) < MaxTruthRels

\* SpecForest: the context graph that add_relation and add_temporal_relation
\* build.  Relations over IS without roles are registered without context or
\* with any relation that already exists as context, temporal relations with
\* any relation that already exists as context (a second call with the same
\* context returns the relation of the first), and evaluate_truth and
\* set_truth_value(TruthValue(TRUE)) are called on them.

ForestContexts == {NoContext} \cup {RelContext(i) : i \in 1..Len(relations)}

ForestAddRelation ==
    \E ctx \in ForestContexts :
        /\ CanAddTruthRelation(FindExisting("IS", NoRoles, ctx))
        /\ AddRelation("IS", NoRoles, "GENERAL", ctx, "None")

ForestAddTemporalRelation ==
    \E ctx \in ForestContexts \ {NoContext} :
        /\ CanAddTruthRelation(FindExistingTemporal("IS", NoRoles, "GENERAL", ctx))
        /\ AddTemporalRelation("IS", NoRoles, "GENERAL", ctx, "None")

NextForest ==
    \/ ForestAddRelation
    \/ ForestAddTemporalRelation
    \/ \E r \in 1..Len(relations) : CallEvaluateTruth(r)
    \/ \E r \in 1..Len(relations) : CallSetTruthValue(r, "TRUE")

SpecForest == Init /\ [][NextForest]_vars

-----------------------------------------------------------------------------
\* SpecShared: truth maintenance with the TruthValue objects kept apart from
\* the relations that hold them.  tvObjs is the heap of TruthValue objects;
\* the truth_value of a relation is a reference [obj |-> o] to one of them.
\* The caller creates TruthValue objects and passes them to add_relation and
\* set_truth_value, the same object any number of times; add_relation without
\* truth_value creates the object itself.  Relation i is over its own
\* predicate, so no call is a duplicate of another, and the context of a
\* relation is None or a relation that already exists.

Ref(o) == [obj |-> o]

\* self.truth_value.value
StoredValue(heap, rels, r) == heap[rels[r].truth_value.obj].value

RECURSIVE EvaluateTruthOn(_, _, _, _)
\* Relation.evaluate_truth() at recursion depth `depth`
EvaluateTruthOn(heap, rels, r, depth) ==
    LET ctx == rels[r].context
    IN  CASE ctx.kind = "relation" ->
                 IF depth >= Len(rels) THEN "RecursionError"
                 ELSE EvaluateTruthOn(heap, rels, ctx.id, depth + 1)
          [] ctx.kind = "relation_context" -> "AttributeError"
          [] ctx.kind = "callable" -> ctx.result
          [] ctx.kind = "plain" -> ctx.value
          [] OTHER -> StoredValue(heap, rels, r)

\* The state of a pass: the heap, the relations, the set `visited` of
\* refresh_context_relations, and the exception that ended the pass.
HeapPass(heap, rels) == [heap |-> heap, rels |-> rels, visited |-> {}, error |-> "None"]

RECURSIVE UpdateFromContextOn(_, _)
RECURSIVE UpdateDependentsOn(_, _)
\* Relation.update_from_context() on r: the states the pass can end in.  The
\* new state is written into the TruthValue object the relation holds.
UpdateFromContextOn(st, r) ==
    IF st.error # "None" THEN {st}
    ELSE LET new_truth == EvaluateTruthOn(st.heap, st.rels, r, 0)
         IN  IF new_truth \in Exceptions THEN {[st EXCEPT !.error = new_truth]}
             ELSE IF new_truth # StoredValue(st.heap, st.rels, r)
                  THEN UpdateDependentsOn(
                           [st EXCEPT !.heap[st.rels[r].truth_value.obj].value = new_truth],
                           st.rels[r].dependents)
                  ELSE {st}

\* for dep in self.dependents: dep.update_from_context(), the set iterated in
\* any order
UpdateDependentsOn(st, deps) ==
    IF deps = {} THEN {st}
    ELSE UNION {UNION {UpdateDependentsOn(s, deps \ {dep}) :
                           s \in UpdateFromContextOn(st, dep)} : dep \in deps}

\* Relation.set_truth_value(tvObjs[o]) on r: the relation takes the object.
SetTruthValueOn(heap, rels, r, o) ==
    IF heap[o].value # StoredValue(heap, rels, r)
    THEN UpdateDependentsOn([HeapPass(heap, rels) EXCEPT !.rels[r].truth_value = Ref(o)],
                            rels[r].dependents)
    ELSE {HeapPass(heap, rels)}

RECURSIVE UpdateRelationOn(_, _)
\* update_relation(relation) inside refresh_context_relations
UpdateRelationOn(st, r) ==
    IF st.error # "None" \/ r \in st.visited THEN {st}
    ELSE LET st1 == [st EXCEPT !.visited = @ \cup {r}]
             before == IF st.rels[r].context.kind = "relation"
                       THEN UpdateRelationOn(st1, st.rels[r].context.id)
                       ELSE {st1}
         IN  UNION {UpdateFromContextOn(s, r) : s \in before}

RECURSIVE RefreshLoopOn(_, _, _)
\* for r in self.relations: if <test>: update_relation(r), from position k on
RefreshLoopOn(sts, k, second) ==
    IF sts = {} \/ \A s \in sts : k > Len(s.rels) THEN sts
    ELSE RefreshLoopOn(
             UNION {IF s.error # "None" THEN {s}
                    ELSE IF (IF second THEN s.rels[k].relation_type = "CONTEXTUAL"
                             ELSE Truthy(s.rels[k].context))
                         THEN UpdateRelationOn(s, k)
                         ELSE {s} : s \in sts},
             k + 1, second)

\* Ontology.refresh_context_relations()
RefreshOn(heap, rels) ==
    RefreshLoopOn(RefreshLoopOn({HeapPass(heap, rels)}, 1, FALSE), 1, TRUE)

\* TruthValue(value), made by the caller
SharedNewTruthValue == \E v \in {"TRUE", "FALSE"} : NewTruthValue(v, "None")

\* ontology.add_relation(predicate, {}, context=ctx, truth_value=tvObjs[o]),
\* or without truth_value when o = 0
SharedAddRelation(ctx, o) ==
    LET r == Len(relations) + 1
        fresh == Len(tvObjs) + 1
    IN  /\ r <= MaxTruthRels
        /\ o = 0 => fresh <= MaxTruthValues
        /\ tvObjs' = IF o = 0 THEN Append(tvObjs, TruthValueWith("UNKNOWN", "None"))
                     ELSE tvObjs
        /\ relations' = Append(RegisterDependent(relations, ctx, r),
                               [NewRelation(PredicateNames[r], NoRoles, "GENERAL", ctx, "None")
                                EXCEPT !.truth_value = Ref(IF o = 0 THEN fresh ELSE o)])
        /\ lastOp' = "add_relation"
        /\ ret' = r
        /\ UNCHANGED <<entities, parents, entRelations, firstRet, walkVars, tmpVars,
                       ctxVars, engVars, regVars, thrVars, tvCall, serVars, qryVars>>

\* The end of a pass: the heap and the relations it leaves.
SharedPassEnds(op, r, ends) ==
    /\ \E st \in ends :
           /\ tvObjs' = st.heap
           /\ relations' = st.rels
    /\ lastOp' = op
    /\ ret' = r
    /\ UNCHANGED <<entities, parents, entRelations, firstRet, walkVars, tmpVars,
                   ctxVars, engVars, regVars, thrVars, tvCall, serVars, qryVars>>

\* r.set_truth_value(tvObjs[o])
SharedSetTruthValue(r, o) ==
    SharedPassEnds("set_truth_value", r, SetTruthValueOn(tvObjs, relations, r, o))

\* r.update_from_context()
SharedUpdateFromContext(r) ==
    SharedPassEnds("update_from_context", r,
                   UpdateFromContextOn(HeapPass(tvObjs, relations), r))

\* ontology.refresh_context_relations()
SharedRefreshContextRelations ==
    SharedPassEnds("refresh_context_relations", 0, RefreshOn(tvObjs, relations))

NextShared ==
    \/ SharedNewTruthValue
    \/ \E ctx \in ForestContexts : \E o \in 0..Len(tvObjs) : SharedAddRelation(ctx, o)
    \/ \E r \in 1..Len(relations) : \E o \in 1..Len(tvObjs) : SharedSetTruthValue(r, o)
    \/ \E r \in 1..Len(relations) : SharedUpdateFromContext(r)
    \/ SharedRefreshContextRelations

SpecShared == Init /\ [][NextShared]_vars

\* The step is a call of refresh_context_relations or update_from_context.
Refreshed == lastOp' \in {"refresh_context_relations", "update_from_context"}

\* C37: refresh_context_relations and update_from_context leave the truth
\* value of every relation without context as it was, also when relations
\* share a TruthValue object.
C37_RefreshKeepsContextFree ==
    [][Refreshed =>
          \A r \in 1..Len(relations) :
              relations[r].context = NoContext =>
                  StoredValue(tvObjs', relations', r) = StoredValue(tvObjs, relations, r)]_vars

-----------------------------------------------------------------------------
\* SpecDescribe: add_entity called with every name and description of SpecReg,
\* under any set of registered parents.

DescribeAddEntity ==
    \E id \in EntityIds, name \in NameArgs, description \in DescriptionArgs :
        \E ps \in SUBSET entities :
            CallAddEntity(id, name, ps, description)

NextDescribe == DescribeAddEntity

SpecDescribe == Init /\ [][NextDescribe]_vars

\* C38: a successful add_entity(name, word_type, parents, description) returns
\* and registers an entity whose description is the description argument,
\* whose parents are the parents argument and whose aliases are empty.
C38_AddEntityStores ==
    [][(entCall'.op = "add_entity" /\ entCall'.error = "None") =>
          LET e == entCall'.returned
          IN  /\ entCall'.id \in entities'
              /\ e.parents = entCall'.parents
              /\ parents'[entCall'.id] = entCall'.parents
              /\ e.aliases = <<>>
              /\ entAliases'[entCall'.id] = <<>>
              /\ e.description = entCall'.description]_vars

-----------------------------------------------------------------------------
\* SpecRestore: what load_ontology restores of the structure of a file.  The
\* entities DOG and PET are added, each under any set of registered parents,
\* saved and loaded again; and load_ontology reads files in the persisted
\* form that hold relations: a relation in the context of another, and a
\* TemporalRelation with one interval, serialized with its relation_type.

RestoreAddEntity ==
    \E id \in SerEntities : \E ps \in SUBSET entities :
        CallAddEntity(id, SerNames[id], ps, "None")

\* The entities of the files: PET is a child of DOG.
ChildEntities ==
    { [id |-> 1, name |-> "DOG", parents |-> {}, aliases |-> <<>>],
      [id |-> 2, name |-> "PET", parents |-> {1}, aliases |-> <<>>] }

\* TemporalRelation.to_dict of a relation with the given relation_type and
\* one interval from DatetimeMin on.
TemporalDictOfType(id, rtype, context) ==
    [TemporalDict(id, "HAS", SO, context) EXCEPT
        !.relation_type = rtype,
        !.interval_truths = <<IntervalDict(Some(DatetimeMin), None, "None")>>]

StructuredFiles ==
    { [FileWith(rels) EXCEPT !.entities = ChildEntities] :
        rels \in { <<RelationDict(5, "HAS", SO, 0), RelationDict(6, "HAS", SubjectOnly, 5)>>,
                   <<TemporalDictOfType(5, "GENERAL", 0)>>,
                   <<TemporalDictOfType(5, "TEMPORAL", 0)>>,
                   <<RelationDict(5, "HAS", SO, 0), TemporalDictOfType(6, "TEMPORAL", 5)>> } }

NextRestore ==
    \/ RestoreAddEntity
    \/ CallSaveOntology
    \/ savedFile.kind = "file" /\ CallLoadOntology(savedFile.data)
    \/ \E data \in StructuredFiles : CallLoadOntology(data)

SpecRestore == Init /\ [][NextRestore]_vars

\* The dict is one that TemporalRelation.to_dict writes.
IsTemporalDict(d) == "interval_truths" \in DOMAIN d

\* Position in the file of the relation dict with the given id, 0 if none.
DictWithId(data, id) ==
    IF \E k \in 1..Len(data.relations) : data.relations[k].id = id
    THEN CHOOSE k \in 1..Len(data.relations) : data.relations[k].id = id
    ELSE 0

\* The loaded Ontology has the structure of the file: parents, contexts with
\* their dependents, and temporal relations with their intervals.
StructureRestored(ont, data) ==
    /\ \A d \in data.entities :
           \E e \in ont.entities : e.id = d.id /\ e.parents = d.parents
    /\ Len(ont.relations) = Len(data.relations)
    /\ \A k \in 1..Len(data.relations) :
           LET c == DictWithId(data, data.relations[k].context)
           IN  /\ c # 0 =>
                     /\ ont.relations[k].context = RelContext(ont.relations[c].id)
                     /\ k \in ont.relations[c].dependents
               /\ IsTemporalDict(data.relations[k]) =>
                     /\ ont.relations[k].temporal
                     /\ Len(ont.relations[k].interval_truths)
                          = Len(data.relations[k].interval_truths)

\* C39: load_ontology restores the structure the saved ids denote: every
\* loaded entity has the parents of the saved parent ids, every loaded
\* relation whose context id names a relation of the file has that relation
\* as context and is among its dependents, and every serialized
\* TemporalRelation is loaded as a TemporalRelation with its intervals.
C39_LoadRestoresStructure ==
    [][(ioCall'.op = "load_ontology" /\ ioCall' # ioCall) =>
           /\ ioCall'.error = "None"
           /\ StructureRestored(ioCall'.result, ioCall'.data)]_vars

====
